---- MODULE Spec2Model ----
(***************************************************************************)
(* A model of the test-composition, scoring and planning engine of         *)
(* app/agents/planner_agent.py (class PlannerAgent) together with the      *)
(* document store it reads and writes.                                     *)
(* The last section models the InMemoryUserStore of                        *)
(* app/services/user_store.py.                                             *)
(*                                                                         *)
(* Strings on which the code does string work (identifiers, answers,       *)
(* subjects handed to strip/upper/split/int) are sequences of              *)
(* one-character strings, so that formatting and parsing are computed.     *)
(* Strings that are only copied (prompts, topics, labels) are TLA+ strings.*)
(* Percentages are integers in hundredths of a point (10000 = 100.00).     *)
(***************************************************************************)
EXTENDS Integers, Sequences, FiniteSets, TLC

VARIABLES
    questions,   \* the live question bank: the documents of the questions collection
    users,       \* the users collection: user key -> user document
    reports,     \* the reports collection: sequence of inserted report documents
    now,         \* the store clock read by datetime.utcnow()
    api_key,     \* PlannerAgent.api_key: whether a remote credential is configured
    result,      \* the last public operation: its arguments, the outcome its caller
                 \* observes and the store and remote calls it issued
    user_store   \* app/services/user_store.py: the InMemoryUserStore singleton,
                 \* its users and sessions dictionaries

vars == <<questions, users, reports, now, api_key, result, user_store>>

-----------------------------------------------------------------------------
(* Bounds of the model.                                                    *)

\* largest questions_per_section requested
MaxN == 2
\* largest number of entries of an answers mapping
MaxAnswers == 2

-----------------------------------------------------------------------------
(* Python values and string helpers.                                       *)

None == [none |-> TRUE]

\* an empty dict
EmptyDict == [k \in {} |-> None]

\* InMemoryUserStore.__init__: no users, no sessions
InMemoryUserStore == [users |-> EmptyDict, sessions |-> EmptyDict]

Digit == <<"0", "1", "2", "3", "4", "5", "6", "7", "8", "9">>

UpperAlphabet ==
    <<"A", "B", "C", "D", "E", "F", "G", "H", "I", "J", "K", "L", "M",
      "N", "O", "P", "Q", "R", "S", "T", "U", "V", "W", "X", "Y", "Z">>

LowerAlphabet ==
    <<"a", "b", "c", "d", "e", "f", "g", "h", "i", "j", "k", "l", "m",
      "n", "o", "p", "q", "r", "s", "t", "u", "v", "w", "x", "y", "z">>

HexChars == {Digit[i] : i \in 1..10} \cup {LowerAlphabet[i] : i \in 1..6}
                \cup {UpperAlphabet[i] : i \in 1..6}

\* str.upper() on one character
UpperChar(c) ==
    IF \E i \in 1..26 : LowerAlphabet[i] = c
    THEN UpperAlphabet[CHOOSE i \in 1..26 : LowerAlphabet[i] = c]
    ELSE c

\* str.lower() on one character
LowerChar(c) ==
    IF \E i \in 1..26 : UpperAlphabet[i] = c
    THEN LowerAlphabet[CHOOSE i \in 1..26 : UpperAlphabet[i] = c]
    ELSE c

Upper(s) == [i \in 1..Len(s) |-> UpperChar(s[i])]

Lower(s) == [i \in 1..Len(s) |-> LowerChar(s[i])]

\* str.strip(): leading and trailing whitespace removed
Strip(s) ==
    LET nonblank == {i \in 1..Len(s) : s[i] # " "}
    IN  IF nonblank = {} THEN <<>>
        ELSE LET lo == CHOOSE i \in nonblank : \A j \in nonblank : i <= j
                 hi == CHOOSE i \in nonblank : \A j \in nonblank : j <= i
             IN  SubSeq(s, lo, hi)

\* str.startswith(prefix)
StartsWith(s, prefix) ==
    /\ Len(s) >= Len(prefix)
    /\ SubSeq(s, 1, Len(prefix)) = prefix

\* position of the first c in s at or after position from, 0 when there is none
FindChar(s, c, from) ==
    LET hits == {i \in from..Len(s) : s[i] = c}
    IN  IF hits = {} THEN 0 ELSE CHOOSE i \in hits : \A j \in hits : i <= j

\* str.split(sep, 2): at most two splits, so at most three parts
Split2(s, sep) ==
    LET p1 == FindChar(s, sep, 1)
    IN  IF p1 = 0 THEN <<s>>
        ELSE LET p2 == FindChar(s, sep, p1 + 1)
             IN  IF p2 = 0
                 THEN <<SubSeq(s, 1, p1 - 1), SubSeq(s, p1 + 1, Len(s))>>
                 ELSE <<SubSeq(s, 1, p1 - 1), SubSeq(s, p1 + 1, p2 - 1),
                        SubSeq(s, p2 + 1, Len(s))>>

RECURSIVE DecimalDigits(_)
\* str(n) for n >= 0
DecimalDigits(n) ==
    IF n < 10 THEN <<Digit[n + 1]>>
    ELSE DecimalDigits(n \div 10) \o <<Digit[(n % 10) + 1]>>

RECURSIVE ZeroPad(_, _)
ZeroPad(s, width) == IF Len(s) >= width THEN s ELSE ZeroPad(<<"0">> \o s, width)

\* format(index, "04d"): the sign counts towards the width
Format04d(index) ==
    IF index >= 0 THEN ZeroPad(DecimalDigits(index), 4)
    ELSE <<"-">> \o ZeroPad(DecimalDigits(-index), 3)

DigitValue(c) == (CHOOSE i \in 1..10 : Digit[i] = c) - 1

IsDigits(s) == Len(s) > 0 /\ \A i \in 1..Len(s) : \E d \in 1..10 : Digit[d] = s[i]

RECURSIVE DigitsValue(_)
DigitsValue(s) ==
    IF Len(s) = 0 THEN 0
    ELSE 10 * DigitsValue(SubSeq(s, 1, Len(s) - 1)) + DigitValue(s[Len(s)])

\* int(s) succeeds: an optional sign and decimal digits (the identifiers of the
\* model hold no whitespace and no underscores, which int() would also accept)
IntParses(s) ==
    \/ IsDigits(s)
    \/ Len(s) > 1 /\ s[1] \in {"-", "+"} /\ IsDigits(Tail(s))

IntValue(s) ==
    IF s[1] = "-" THEN 0 - DigitsValue(Tail(s))
    ELSE IF s[1] = "+" THEN DigitsValue(Tail(s))
    ELSE DigitsValue(s)

\* bson.ObjectId.is_valid on a str: 24 hexadecimal characters
ObjectIdIsValid(s) == Len(s) = 24 /\ \A i \in 1..24 : s[i] \in HexChars

-----------------------------------------------------------------------------
(* Section catalogue.                                                      *)

SECTION_ORDER ==
    <<"polity", "economy", "history", "geography", "environment",
      "scienceTech", "currentAffairs">>

Sections == {SECTION_ORDER[i] : i \in 1..Len(SECTION_ORDER)}

\* the section keys as the characters that appear inside identifiers
SectionChars ==
    [ polity         |-> <<"p","o","l","i","t","y">>,
      economy        |-> <<"e","c","o","n","o","m","y">>,
      history        |-> <<"h","i","s","t","o","r","y">>,
      geography      |-> <<"g","e","o","g","r","a","p","h","y">>,
      environment    |-> <<"e","n","v","i","r","o","n","m","e","n","t">>,
      scienceTech    |-> <<"s","c","i","e","n","c","e","T","e","c","h">>,
      currentAffairs |-> <<"c","u","r","r","e","n","t","A","f","f","a","i","r","s">> ]

SECTION_CONFIG ==
    [ polity         |-> [label |-> "Polity", aliases |-> {"Polity", "polity"}],
      economy        |-> [label |-> "Economy", aliases |-> {"Economy", "economy", "Economic"}],
      history        |-> [label |-> "History", aliases |-> {"History", "history"}],
      geography      |-> [label |-> "Geography", aliases |-> {"Geography", "geography"}],
      environment    |-> [label |-> "Environment",
                          aliases |-> {"Environment", "environment", "Ecology"}],
      scienceTech    |-> [label |-> "Science & Tech",
                          aliases |-> {"ScienceTech", "scienceTech", "Science",
                                       "Technology", "Science & Tech"}],
      currentAffairs |-> [label |-> "Current Affairs",
                          aliases |-> {"CurrentAffairs", "Current Affairs",
                                       "currentAffairs"}] ]

-----------------------------------------------------------------------------
(* Fallback question bank.                                                 *)

\* int(0..999) drawn by random.randint in _prepare_test_from_mock
MaxStartIndex == 999

\* the start offsets the composition draws in the model: one whose successor
\* wraps from the first pass over the blueprints to the second, and the largest
StartIndices == {3, MaxStartIndex}

MOCK_SECTION_BLUEPRINTS ==
    [ polity |-> <<
        [question |-> "Which Article empowers the Supreme Court to issue writs for the enforcement of Fundamental Rights?",
         topic |-> "Fundamental Rights", difficulty |-> "Medium",
         options |-> [A |-> "Article 32", B |-> "Article 21",
                      C |-> "Article 356", D |-> "Article 143"],
         answer |-> <<"A">>],
        [question |-> "The concept of judicial review in the Indian Constitution is borrowed from which country?",
         topic |-> "Judiciary", difficulty |-> "Easy",
         options |-> [A |-> "United Kingdom", B |-> "United States",
                      C |-> "Canada", D |-> "Ireland"],
         answer |-> <<"B">>],
        [question |-> "Who presides over the joint sitting of Parliament?",
         topic |-> "Parliament", difficulty |-> "Easy",
         options |-> [A |-> "President of India", B |-> "Speaker of Lok Sabha",
                      C |-> "Chairman of Rajya Sabha", D |-> "Prime Minister"],
         answer |-> <<"B">>],
        [question |-> "Which schedule contains the languages recognized by the Constitution?",
         topic |-> "Schedules of Constitution", difficulty |-> "Medium",
         options |-> [A |-> "Sixth Schedule", B |-> "Seventh Schedule",
                      C |-> "Eighth Schedule", D |-> "Tenth Schedule"],
         answer |-> <<"C">>]
      >>,
      economy |-> <<
        [question |-> "Which index is released by the National Statistical Office to track retail inflation?",
         topic |-> "Inflation", difficulty |-> "Medium",
         options |-> [A |-> "Wholesale Price Index", B |-> "Consumer Price Index",
                      C |-> "Index of Industrial Production", D |-> "Purchasing Managers Index"],
         answer |-> <<"B">>],
        [question |-> "Which body recommends the distribution of tax revenues between the Union and the States?",
         topic |-> "Public Finance", difficulty |-> "Easy",
         options |-> [A |-> "Finance Commission", B |-> "GST Council",
                      C |-> "NITI Aayog", D |-> "RBI"],
         answer |-> <<"A">>],
        [question |-> "MSP for crops in India is recommended by which commission?",
         topic |-> "Agriculture", difficulty |-> "Easy",
         options |-> [A |-> "Finance Commission", B |-> "Tariff Commission",
                      C |-> "Commission for Agricultural Costs and Prices", D |-> "NABARD"],
         answer |-> <<"C">>],
        [question |-> "Which of the following is NOT a component of the balance of payments?",
         topic |-> "External Sector", difficulty |-> "Medium",
         options |-> [A |-> "Current Account", B |-> "Capital Account",
                      C |-> "Financial Account", D |-> "Revenue Account"],
         answer |-> <<"D">>]
      >>,
      history |-> <<
        [question |-> "Which of the following was NOT a feature of the Indus Valley Civilization?",
         topic |-> "Ancient India", difficulty |-> "Medium",
         options |-> [A |-> "Grid pattern town planning", B |-> "Use of iron tools",
                      C |-> "Standardized weights", D |-> "Advanced drainage"],
         answer |-> <<"B">>],
        [question |-> "Who among the following founded the Prarthana Samaj?",
         topic |-> "Modern India", difficulty |-> "Easy",
         options |-> [A |-> "Atmaram Pandurang", B |-> "M.G. Ranade",
                      C |-> "Swami Dayanand", D |-> "Keshab Chandra Sen"],
         answer |-> <<"A">>],
        [question |-> "Which Governor-General introduced the Doctrine of Lapse?",
         topic |-> "British Policies", difficulty |-> "Easy",
         options |-> [A |-> "Lord Dalhousie", B |-> "Lord Wellesley",
                      C |-> "Lord Hastings", D |-> "Lord Bentick"],
         answer |-> <<"A">>],
        [question |-> "The Battle of Plassey was fought in which year?",
         topic |-> "Modern India", difficulty |-> "Medium",
         options |-> [A |-> "1748", B |-> "1757",
                      C |-> "1764", D |-> "1782"],
         answer |-> <<"B">>]
      >>,
      geography |-> <<
        [question |-> "Which of the following rivers is a tributary of the Brahmaputra?",
         topic |-> "Indian Rivers", difficulty |-> "Medium",
         options |-> [A |-> "Beas", B |-> "Lohit",
                      C |-> "Chambal", D |-> "Son"],
         answer |-> <<"B">>],
        [question |-> "Black cotton soil is ideal for the cultivation of which crop?",
         topic |-> "Soils", difficulty |-> "Easy",
         options |-> [A |-> "Rice", B |-> "Tea",
                      C |-> "Cotton", D |-> "Wheat"],
         answer |-> <<"C">>],
        [question |-> "The Tropic of Cancer passes through how many Indian states?",
         topic |-> "Location Based", difficulty |-> "Medium",
         options |-> [A |-> "6", B |-> "8",
                      C |-> "9", D |-> "10"],
         answer |-> <<"C">>],
        [question |-> "Which plateau is known as the \"Mineral Storehouse\" of India?",
         topic |-> "Physiography", difficulty |-> "Easy",
         options |-> [A |-> "Deccan Plateau", B |-> "Chota Nagpur Plateau",
                      C |-> "Malwa Plateau", D |-> "Bastar Plateau"],
         answer |-> <<"B">>]
      >>,
      environment |-> <<
        [question |-> "Which Indian Act provides the legal basis for declaring Eco-sensitive Zones?",
         topic |-> "Conservation", difficulty |-> "Medium",
         options |-> [A |-> "Forest Conservation Act, 1980", B |-> "Wildlife Protection Act, 1972",
                      C |-> "Biological Diversity Act, 2002", D |-> "Environment Protection Act, 1986"],
         answer |-> <<"B">>],
        [question |-> "Biosphere Reserves aim to conserve which level of biodiversity?",
         topic |-> "Biodiversity", difficulty |-> "Easy",
         options |-> [A |-> "Genetic", B |-> "Species",
                      C |-> "Ecosystem", D |-> "All of the above"],
         answer |-> <<"D">>],
        [question |-> "Which gas has the highest global warming potential among the following?",
         topic |-> "Climate Change", difficulty |-> "Medium",
         options |-> [A |-> "Carbon dioxide", B |-> "Methane",
                      C |-> "Nitrous oxide", D |-> "Sulphur hexafluoride"],
         answer |-> <<"D">>],
        [question |-> "Project Tiger was launched in which year?",
         topic |-> "Schemes", difficulty |-> "Easy",
         options |-> [A |-> "1969", B |-> "1973",
                      C |-> "1985", D |-> "1992"],
         answer |-> <<"B">>]
      >>,
      scienceTech |-> <<
        [question |-> "Which of the following is a reusable launch vehicle developed by ISRO?",
         topic |-> "Space", difficulty |-> "Medium",
         options |-> [A |-> "PSLV", B |-> "GSLV Mk III",
                      C |-> "RLV-TD", D |-> "ASLV"],
         answer |-> <<"C">>],
        [question |-> "CRISPR technology is primarily used for what purpose?",
         topic |-> "Biotechnology", difficulty |-> "Easy",
         options |-> [A |-> "Protein folding", B |-> "Genome editing",
                      C |-> "RNA sequencing", D |-> "Drug delivery"],
         answer |-> <<"B">>],
        [question |-> "Which mission aims to study the Sun from L1 point?",
         topic |-> "Space", difficulty |-> "Medium",
         options |-> [A |-> "Chandrayaan-3", B |-> "Mangalyaan",
                      C |-> "Aditya-L1", D |-> "Gaganyaan"],
         answer |-> <<"C">>],
        [question |-> "Li-Fi technology primarily uses which wave for data transmission?",
         topic |-> "Communication", difficulty |-> "Easy",
         options |-> [A |-> "Radio waves", B |-> "Microwaves",
                      C |-> "Infrared/Visible light", D |-> "Gamma rays"],
         answer |-> <<"C">>]
      >>,
      currentAffairs |-> <<
        [question |-> "The 'PM-PRANAM' scheme is related to which of the following?",
         topic |-> "Government Schemes", difficulty |-> "Medium",
         options |-> [A |-> "Crop insurance", B |-> "Fertilizer usage",
                      C |-> "Rural housing", D |-> "Skill development"],
         answer |-> <<"B">>],
        [question |-> "Which organization publishes the Global Gender Gap Report?",
         topic |-> "Reports", difficulty |-> "Easy",
         options |-> [A |-> "UNDP", B |-> "World Economic Forum",
                      C |-> "World Bank", D |-> "IMF"],
         answer |-> <<"B">>],
        [question |-> "'PM MITRA' parks are associated with which sector?",
         topic |-> "Industries", difficulty |-> "Easy",
         options |-> [A |-> "Electronics", B |-> "Textiles",
                      C |-> "Automobile", D |-> "Pharmaceuticals"],
         answer |-> <<"B">>],
        [question |-> "India recently signed the Artemis Accords. These are related to which domain?",
         topic |-> "International", difficulty |-> "Medium",
         options |-> [A |-> "Space exploration", B |-> "Climate finance",
                      C |-> "Nuclear disarmament", D |-> "Cyber security"],
         answer |-> <<"A">>]
      >> ]

\* MOCK_SECTION_BLUEPRINTS.get(section) is truthy, section given as characters
HasBlueprints(section) == \E s \in Sections : SectionChars[s] = section

SectionKeyOf(section) == CHOOSE s \in Sections : SectionChars[s] = section

\* str(n) for any integer
IntStr(n) == IF n < 0 THEN <<"-">> \o DecimalDigits(0 - n) ELSE DecimalDigits(n)

MockPrefix == <<"m", "o", "c", "k", "-">>

\* the variant shown in the prompt of the question at this index (line 704)
VariantLabel(variant) == variant + 1

\* qid = f"mock-{section}-{index:04d}"
MockQid(section, index) == MockPrefix \o section \o <<"-">> \o Format04d(index)

\* _mock_question_document: [raised |-> "ValueError"] or [raised |-> "", value |-> payload]
mock_question_document(section, index, include_answer) ==
    IF ~HasBlueprints(section) THEN [raised |-> "ValueError"]
    ELSE
        LET key == SectionKeyOf(section)
            blueprints == MOCK_SECTION_BLUEPRINTS[key]
            blueprint == blueprints[(index % Len(blueprints)) + 1]
            variant == index \div Len(blueprints)
            label == SECTION_CONFIG[key].label
            question_text ==
                IF variant # 0
                THEN <<blueprint.question, " (Variant ">> \o IntStr(VariantLabel(variant)) \o <<")">>
                ELSE <<blueprint.question>>
            payload ==
                [question_id |-> MockQid(section, index),
                 section |-> key,
                 section_label |-> label,
                 subject |-> <<label>>,
                 topic |-> blueprint.topic,
                 difficulty |-> blueprint.difficulty,
                 question |-> question_text,
                 options |-> blueprint.options]
        IN  [raised |-> "",
             value |-> IF include_answer
                       THEN [f \in DOMAIN payload \cup {"correct_answer"} |->
                                IF f = "correct_answer" THEN blueprint.answer ELSE payload[f]]
                       ELSE payload]

\* _mock_question_from_id, were an identifier of an unknown section answered
\* with a polity question instead of None
mock_question_from_id_any_section(qid) ==
    IF ~StartsWith(qid, MockPrefix) THEN None
    ELSE
        LET parts == Split2(qid, "-")
        IN  IF Len(parts) # 3 THEN None
            ELSE IF ~IntParses(parts[3]) THEN None
            ELSE LET doc == mock_question_document(parts[2], IntValue(parts[3]), TRUE)
                 IN  IF doc.raised = "ValueError"
                     THEN mock_question_document(SectionChars["polity"],
                                                 IntValue(parts[3]), TRUE).value
                     ELSE doc.value

\* _mock_question_from_id, were the index reduced to a blueprint number before
\* the question is rebuilt
mock_question_from_id_first_variant(qid) ==
    IF ~StartsWith(qid, MockPrefix) THEN None
    ELSE
        LET parts == Split2(qid, "-")
        IN  IF Len(parts) # 3 THEN None
            ELSE IF ~IntParses(parts[3]) THEN None
            ELSE IF ~HasBlueprints(parts[2]) THEN None
            ELSE mock_question_document(
                     parts[2],
                     IntValue(parts[3]) % Len(MOCK_SECTION_BLUEPRINTS[SectionKeyOf(parts[2])]),
                     TRUE).value

\* _mock_question_from_id: None or the question document with its answer
mock_question_from_id(qid) ==
    IF ~StartsWith(qid, MockPrefix) THEN None
    ELSE
        LET parts == Split2(qid, "-")
        IN  IF Len(parts) # 3 THEN None
            ELSE IF ~IntParses(parts[3]) THEN None
            ELSE LET doc == mock_question_document(parts[2], IntValue(parts[3]), TRUE)
                 IN  IF doc.raised = "ValueError" THEN None ELSE doc.value

-----------------------------------------------------------------------------
(* Live question bank: the documents the questions collection may hold.    *)

\* position of a section in SECTION_ORDER
SectionIndex(section) == CHOOSE i \in 1..Len(SECTION_ORDER) : SECTION_ORDER[i] = section

\* a 24-character hexadecimal ObjectId, distinct per (section, k)
LiveObjectId(section, k) ==
    [i \in 1..24 |-> IF i = 23 THEN Digit[SectionIndex(section) + 1]
                     ELSE IF i = 24 THEN Digit[k + 1] ELSE "a"]

\* Two documents per section.  The first carries an application-level
\* question_id and the section label as subject; the second has no
\* question_id (it is addressed by str(_id)), a second alias as subject and a
\* correct answer stored in lower case with surrounding whitespace.
LiveDoc(section, k) ==
    [_id |-> LiveObjectId(section, k),
     question_id |-> IF k = 1 THEN <<"q", Digit[SectionIndex(section) + 1]>> ELSE <<>>,
     subject |-> IF k = 1 THEN <<SECTION_CONFIG[section].label>> ELSE <<section>>,
     topic |-> "live topic",
     difficulty |-> IF k = 1 THEN "Easy" ELSE "Hard",
     question |-> <<"live prompt", section, Digit[k + 1]>>,
     options |-> [A |-> "a", B |-> "b", C |-> "c", D |-> "d"],
     correct_answer |-> IF k = 1 THEN <<"B">> ELSE <<" ", "b">>]

LiveDocs == {LiveDoc(s, k) : s \in Sections, k \in 1..2}

\* a document whose subject matches no alias of any section
MistaggedDoc ==
    [_id |-> [i \in 1..24 |-> "f"],
     question_id |-> <<"q", "x">>,
     subject |-> <<"Sociology">>,
     topic |-> "live topic",
     difficulty |-> "Easy",
     question |-> <<"live prompt", "sociology">>,
     options |-> [A |-> "a", B |-> "b", C |-> "c", D |-> "d"],
     correct_answer |-> <<"A">>]

\* the banks the model starts from: the full bank, or the full bank with one
\* section reduced to its first document or to none
Banks ==
    {LiveDocs \cup {MistaggedDoc}}
        \cup {(LiveDocs \ {LiveDoc(s, k) : k \in gone}) \cup {MistaggedDoc} :
                s \in Sections, gone \in {{2}, {1, 2}}}

\* {"subject": {"$in": aliases}}: the stored subject equals one of the aliases
MatchesAliases(doc, aliases) == \E a \in aliases : doc.subject = <<a>>

\* count_documents({"subject": {"$in": aliases}})
count_documents(bank, aliases) == Cardinality({d \in bank : MatchesAliases(d, aliases)})

\* the results aggregate([$match, $sample size]) followed by random.shuffle can
\* give: every sequence of size distinct matching documents
SampleResults(bank, aliases, size) ==
    LET matching == {d \in bank : MatchesAliases(d, aliases)}
        k == IF size <= Cardinality(matching) THEN size ELSE Cardinality(matching)
    IN  {q \in [1..k -> matching] : \A i, j \in 1..k : i # j => q[i] # q[j]}

-----------------------------------------------------------------------------
(* Test composition.                                                       *)

\* str(doc["_id"]) is the ObjectId's 24 characters
DocQid(doc) == IF doc.question_id # <<>> THEN doc.question_id ELSE doc._id

\* the client payload of a live question, were the stored answer copied too
DbQuestionPayload_with_answer(doc, section) ==
    [question_id |-> DocQid(doc),
     section |-> section,
     section_label |-> SECTION_CONFIG[section].label,
     subject |-> doc.subject,
     topic |-> doc.topic,
     difficulty |-> doc.difficulty,
     question |-> doc.question,
     options |-> doc.options,
     correct_answer |-> doc.correct_answer]

\* the client payload of a live question (lines 636-647)
DbQuestionPayload(doc, section) ==
    [question_id |-> DocQid(doc),
     section |-> section,
     section_label |-> SECTION_CONFIG[section].label,
     subject |-> doc.subject,
     topic |-> doc.topic,
     difficulty |-> doc.difficulty,
     question |-> doc.question,
     options |-> doc.options]

TestPayload(n, sections_payload) ==
    [questions_per_section |-> n,
     total_questions |-> LET RECURSIVE Sum(_)
                             Sum(i) == IF i = 0 THEN 0
                                       ELSE Sum(i - 1) + Len(sections_payload[i].questions)
                         IN  Sum(Len(sections_payload)),
     sections |-> sections_payload]

RECURSIVE DbLoop(_, _, _, _, _, _, _)
\* the loop of _prepare_test_from_db from section number i on; failAt is the
\* number of the store call that raises PyMongoError (0: none does)
DbLoop(bank, i, n, picks, failAt, sections_payload, issued) ==
    IF i > Len(SECTION_ORDER)
    THEN [raised |-> "", value |-> TestPayload(n, sections_payload), ops |-> issued]
    ELSE
        LET section == SECTION_ORDER[i]
            aliases == SECTION_CONFIG[section].aliases
            available == count_documents(bank, aliases)
            afterCount == Append(issued, "questions.count_documents")
            afterSample == Append(afterCount, "questions.aggregate")
            docs == picks[i]
            qs == [j \in 1..Len(docs) |-> DbQuestionPayload(docs[j], section)]
        IN  IF failAt = Len(afterCount) THEN [raised |-> "PyMongoError", ops |-> afterCount]
            ELSE IF available < n THEN [raised |-> "ValueError", ops |-> afterCount]
            ELSE IF failAt = Len(afterSample) THEN [raised |-> "PyMongoError", ops |-> afterSample]
            ELSE DbLoop(bank, i + 1, n, picks, failAt,
                        Append(sections_payload,
                               [key |-> section, label |-> SECTION_CONFIG[section].label,
                                questions |-> qs]),
                        afterSample)

prepare_test_from_db(bank, n, picks, failAt) == DbLoop(bank, 1, n, picks, failAt, <<>>, <<>>)

\* _prepare_test_from_mock; starts[i] is the start_index drawn for section i
prepare_test_from_mock(n, starts) ==
    LET SectionPayload(i) ==
            LET section == SECTION_ORDER[i]
            IN  [key |-> section, label |-> SECTION_CONFIG[section].label,
                 questions |->
                    [offset \in 1..n |->
                        mock_question_document(SectionChars[section],
                                               starts[i] + (offset - 1), FALSE).value]]
    IN  [raised |-> "",
         value |-> TestPayload(n, [i \in 1..Len(SECTION_ORDER) |-> SectionPayload(i)])]

\* prepare_test, were the errors of the live path left to propagate
prepare_test_uncaught(bank, n, picks, starts, failAt) ==
    IF n <= 0 THEN [raised |-> "ValueError", ops |-> <<>>]
    ELSE prepare_test_from_db(bank, n, picks, failAt)

\* prepare_test, were questions_per_section validated after the live path ran
prepare_test_sample_first(bank, n, picks, starts, failAt) ==
    LET db == prepare_test_from_db(bank, n, picks, failAt)
    IN  IF n <= 0 THEN [raised |-> "ValueError", ops |-> db.ops]
        ELSE IF db.raised = ""
        THEN [raised |-> "", value |-> db.value, ops |-> db.ops]
        ELSE [raised |-> "", value |-> prepare_test_from_mock(n, starts).value,
              ops |-> db.ops]

\* prepare_test: the outcome its caller observes and the store calls issued
prepare_test(bank, n, picks, starts, failAt) ==
    IF n <= 0 THEN [raised |-> "ValueError", ops |-> <<>>]
    ELSE
        LET db == prepare_test_from_db(bank, n, picks, failAt)
        IN  IF db.raised = ""
            THEN [raised |-> "", value |-> db.value, ops |-> db.ops]
            ELSE [raised |-> "", value |-> prepare_test_from_mock(n, starts).value,
                  ops |-> db.ops]

-----------------------------------------------------------------------------
(* Classification.                                                         *)

\* THRESHOLDS, in points
THRESHOLDS ==
    << [lo |-> 0, hi |-> 40, label |-> "Critical Weak"],
       [lo |-> 40, hi |-> 60, label |-> "Weak"],
       [lo |-> 60, hi |-> 75, label |-> "Average"],
       [lo |-> 75, hi |-> 90, label |-> "Strong"],
       [lo |-> 90, hi |-> 100, label |-> "Excellent"] >>

\* one point, in the hundredths the model counts scores in
Point == 100

\* classify_score: the label of the first row with lo <= score <= hi
classify_score(score) ==
    LET rows == {i \in 1..Len(THRESHOLDS) :
                    /\ THRESHOLDS[i].lo * Point <= score
                    /\ score <= THRESHOLDS[i].hi * Point}
    IN  IF rows = {} THEN "Unknown"
        ELSE THRESHOLDS[CHOOSE i \in rows : \A j \in rows : i <= j].label

-----------------------------------------------------------------------------
(* The users and reports collections.                                      *)

\* an absent string value (Python None where a str is expected)
NoStr == <<"None">>

\* truthiness of an optional string
Truthy(s) == s # NoStr /\ s # <<>>

Labels == {SECTION_CONFIG[s].label : s \in Sections}

UserObjectId(k) == [i \in 1..24 |-> IF i = 24 THEN Digit[k + 1] ELSE "b"]

UserDoc(k, scores) ==
    [_id |-> UserObjectId(k),
     name |-> IF k = 1 THEN "Asha" ELSE "Bala",
     email |-> <<LowerAlphabet[k], "@", "x">>,
     phoneNumber |-> <<"9", Digit[k + 1]>>,
     testScores |-> scores]

\* find_one(filter) on a collection held as a sequence of documents
FindOne(coll, field, value) ==
    LET hits == {i \in 1..Len(coll) : coll[i][field] = value}
    IN  IF hits = {} THEN None
        ELSE coll[CHOOSE i \in hits : \A j \in hits : i <= j]

\* "@" in identifier
HasAt(s) == \E i \in 1..Len(s) : s[i] = "@"

\* _find_user: up to three find_one calls, none of them guarded.
\* failAt is the number of the store call of this request that raises.
find_user(coll, identifier, failAt, issued) ==
    LET id == Strip(identifier)
        byId == ObjectIdIsValid(id)
        ops1 == IF byId THEN Append(issued, "users.find_one") ELSE issued
        user1 == IF byId THEN FindOne(coll, "_id", id) ELSE None
        byEmail == HasAt(id)
        ops2 == IF byEmail THEN Append(ops1, "users.find_one") ELSE ops1
        user2 == IF byEmail THEN FindOne(coll, "email", Lower(id)) ELSE None
        ops3 == Append(ops2, "users.find_one")
    IN  IF byId /\ failAt = Len(ops1) THEN [raised |-> "PyMongoError", ops |-> ops1]
        ELSE IF user1 # None THEN [raised |-> "", value |-> user1, ops |-> ops1]
        ELSE IF byEmail /\ failAt = Len(ops2) THEN [raised |-> "PyMongoError", ops |-> ops2]
        ELSE IF user2 # None THEN [raised |-> "", value |-> user2, ops |-> ops2]
        ELSE IF failAt = Len(ops3) THEN [raised |-> "PyMongoError", ops |-> ops3]
        ELSE [raised |-> "", value |-> FindOne(coll, "phoneNumber", id), ops |-> ops3]

\* update_one({"_id": id}, {"$set": {"testScores": [entry]}})
PushTestScore_set(coll, id, entry) ==
    [i \in 1..Len(coll) |->
        IF coll[i]._id = id
        THEN [coll[i] EXCEPT !.testScores = <<entry>>]
        ELSE coll[i]]

\* update_one({"_id": id}, {"$push": {"testScores": entry}})
PushTestScore(coll, id, entry) ==
    [i \in 1..Len(coll) |->
        IF coll[i]._id = id
        THEN [coll[i] EXCEPT !.testScores = Append(@, entry)]
        ELSE coll[i]]

\* _persist_score: the user document, the persistence flag, the users
\* collection afterwards and the store calls issued
persist_score(coll, user_id, scores, clock, failAt, issued) ==
    IF ~Truthy(user_id)
    THEN [raised |-> "", user_doc |-> None, users |-> coll, ops |-> issued,
          persisted |-> [saved |-> FALSE, message |-> "user_id not supplied"]]
    ELSE
        LET found == find_user(coll, user_id, failAt, issued)
        IN  IF found.raised # "" THEN [raised |-> found.raised, users |-> coll, ops |-> found.ops]
            ELSE IF found.value = None
            THEN [raised |-> "", user_doc |-> None, users |-> coll, ops |-> found.ops,
                  persisted |-> [saved |-> FALSE, message |-> "user not found in database"]]
            ELSE
                LET user_doc == found.value
                    sections_payload ==
                        [key \in Sections |-> scores[SECTION_CONFIG[key].label]]
                    entry == [date |-> clock, sections |-> sections_payload]
                    opsUpdate == Append(found.ops, "users.update_one")
                    opsRefresh == Append(opsUpdate, "users.find_one")
                    pushed == PushTestScore(coll, user_doc._id, entry)
                    failed == [saved |-> FALSE, message |-> "Failed to persist result"]
                IN  IF failAt = Len(opsUpdate)
                    THEN [raised |-> "", user_doc |-> user_doc, users |-> coll,
                          ops |-> opsUpdate, persisted |-> failed]
                    ELSE IF failAt = Len(opsRefresh)
                    THEN [raised |-> "", user_doc |-> user_doc, users |-> pushed,
                          ops |-> opsRefresh, persisted |-> failed]
                    ELSE [raised |-> "", user_doc |-> FindOne(pushed, "_id", user_doc._id),
                          users |-> pushed, ops |-> opsRefresh,
                          persisted |-> [saved |-> TRUE, message |-> "Result stored successfully"]]

RECURSIVE SortByDate(_)
\* list.sort(key=date): stable, ascending
SortByDate(entries) ==
    IF Len(entries) <= 1 THEN entries
    ELSE LET rest == SortByDate(SubSeq(entries, 1, Len(entries) - 1))
             last == entries[Len(entries)]
             before == {i \in 1..Len(rest) : rest[i].date <= last.date}
             k == IF before = {} THEN 0 ELSE CHOOSE i \in before : \A j \in before : j <= i
         IN  SubSeq(rest, 1, k) \o <<last>> \o SubSeq(rest, k + 1, Len(rest))

\* how many snapshots _load_history surfaces
HistoryWindow == 5

\* _load_history
load_history(user_doc) ==
    IF user_doc = None THEN [available |-> FALSE, entries |-> <<>>]
    ELSE
        LET entries == SortByDate(user_doc.testScores)
            from == IF Len(entries) > HistoryWindow THEN Len(entries) - HistoryWindow + 1 ELSE 1
            history_payload == SubSeq(entries, from, Len(entries))
        IN  [available |-> Len(history_payload) > 0, entries |-> history_payload]

\* the change, in points, beyond which trend feedback reports a section
FeedbackThreshold == 2

\* _build_feedback
build_feedback(history, current_scores) ==
    LET entries == history.entries
    IN  IF Len(entries) < 2
        THEN [summary |-> <<"No prior attempts available.">>,
              improved_sections |-> <<>>, regressed_sections |-> <<>>,
              stable_sections |-> <<>>]
        ELSE
            LET previous == entries[Len(entries) - 1].sections
                Record(i) ==
                    LET section == SECTION_ORDER[i]
                        label == SECTION_CONFIG[section].label
                    IN  [section |-> label, previous |-> previous[section],
                         current |-> current_scores[label],
                         delta |-> current_scores[label] - previous[section]]
                records == [i \in 1..Len(SECTION_ORDER) |-> Record(i)]
                IsImproved(r) == r.delta > FeedbackThreshold * Point
                IsRegressed(r) == ~IsImproved(r) /\ r.delta < 0 - FeedbackThreshold * Point
                IsStable(r) == ~IsImproved(r) /\ ~IsRegressed(r)
                improved == SelectSeq(records, IsImproved)
                regressed == SelectSeq(records, IsRegressed)
                stable == SelectSeq(records, IsStable)
            IN  [summary |->
                    (IF improved # <<>> THEN <<"Improved">> ELSE <<>>)
                        \o (IF regressed # <<>> THEN <<"Needs attention">> ELSE <<>>)
                        \o (IF stable # <<>> THEN <<"Stable">> ELSE <<>>),
                 improved_sections |-> improved,
                 regressed_sections |-> regressed,
                 stable_sections |-> stable]

\* _persist_final_report: the report_storage flag and the reports collection
persist_final_report(reps, report, user_id, user_email, clock, failAt, issued) ==
    LET base == [_id |-> Len(reps) + 1, date |-> clock, user_id |-> user_id, report |-> report]
        doc == IF Truthy(user_email)
               THEN [f \in DOMAIN base \cup {"user_email"} |->
                        IF f = "user_email" THEN user_email ELSE base[f]]
               ELSE base
        opsInsert == Append(issued, "reports.insert_one")
    IN  IF failAt = Len(opsInsert)
        THEN [reports |-> reps, ops |-> opsInsert,
              report_storage |-> [saved |-> FALSE, message |-> "PyMongoError"]]
        ELSE [reports |-> Append(reps, doc), ops |-> opsInsert,
              report_storage |-> [saved |-> TRUE, report_id |-> doc._id]]

\* _normalize_section, were the subject compared without being stripped
normalize_section_unstripped(subject) ==
    LET given == IF Truthy(subject) THEN subject ELSE <<>>
        hits == {i \in 1..Len(SECTION_ORDER) :
                    \E a \in SECTION_CONFIG[SECTION_ORDER[i]].aliases : given = <<a>>}
    IN  IF hits = {} THEN "polity"
        ELSE SECTION_ORDER[CHOOSE i \in hits : \A j \in hits : i <= j]

\* _normalize_section, were every subject filed under the default section
normalize_section_default(subject) == "polity"

\* _normalize_section: the first section one of whose aliases is the stripped
\* subject, polity when there is none
normalize_section(subject) ==
    LET stripped == Strip(IF Truthy(subject) THEN subject ELSE <<>>)
        hits == {i \in 1..Len(SECTION_ORDER) :
                    \E a \in SECTION_CONFIG[SECTION_ORDER[i]].aliases : stripped = <<a>>}
    IN  IF hits = {} THEN "polity"
        ELSE SECTION_ORDER[CHOOSE i \in hits : \A j \in hits : i <= j]

-----------------------------------------------------------------------------
(* Plan generation.                                                        *)

DEFAULT_BOOKLIST ==
    [l \in Labels |->
        CASE l = "Polity" -> <<"Indian Polity - M. Laxmikanth", "NCERT Polity (Class 11-12)">>
          [] l = "Economy" -> <<"Indian Economy - Ramesh Singh", "NCERT Economics">>
          [] l = "History" -> <<"Spectrum Modern India", "NCERT History">>
          [] l = "Geography" -> <<"Oxford School Atlas", "NCERT Geography">>
          [] l = "Environment" -> <<"Shankar IAS Environment", "NCERT Biology (relevant)">>
          [] l = "Science & Tech" -> <<"NCERT Science", "Current Affairs summaries">>
          [] l = "Current Affairs" -> <<"PIB releases", "Rajya Sabha TV Debates">>]

\* the section labels in the order sorted() gives them
SortedLabels ==
    <<"Current Affairs", "Economy", "Environment", "Geography", "History",
      "Polity", "Science & Tech">>

\* dict.get(field): the value, or None
Get(d, field) == IF field \in DOMAIN d THEN d[field] ELSE None

\* _to_display_key
to_display_key(key) ==
    LET stripped == Strip(key)
    IN  IF \E l \in Labels : stripped = <<l>>
        THEN CHOOSE l \in Labels : stripped = <<l>>
        ELSE SECTION_CONFIG[normalize_section(stripped)].label

RECURSIVE normalize_performance(_)
\* _normalize_performance on the items of a dict, in insertion order: a key
\* seen again overwrites the value and keeps the place; an item whose value
\* float() rejects (it has no numeric value) is skipped
normalize_performance(raw) ==
    IF Len(raw) = 0 THEN <<>>
    ELSE LET rest == normalize_performance(SubSeq(raw, 1, Len(raw) - 1))
             item == raw[Len(raw)]
             label == to_display_key(item.key)
             at == {i \in 1..Len(rest) : rest[i].label = label}
         IN  IF "value" \notin DOMAIN item THEN rest
             ELSE IF at = {} THEN Append(rest, [label |-> label, value |-> item.value])
             ELSE [rest EXCEPT ![CHOOSE i \in at : TRUE].value = item.value]

\* dict.get(label, 0.0) on items
ItemsGet(items, label) ==
    IF \E i \in 1..Len(items) : items[i].label = label
    THEN items[CHOOSE i \in 1..Len(items) : items[i].label = label].value
    ELSE 0

\* _fetch_previous_report: the most recent report of the user, None when there
\* is none, no user is named, or the lookup fails
fetch_previous_report(reps, user_email, user_id, failAt, issued) ==
    IF ~Truthy(user_email) /\ ~Truthy(user_id)
    THEN [value |-> None, ops |-> issued]
    ELSE
        LET Matches(d) ==
                IF Truthy(user_email)
                THEN "user_email" \in DOMAIN d /\ d.user_email = Lower(Strip(user_email))
                ELSE d.user_id = user_id
            hits == {i \in 1..Len(reps) : Matches(reps[i])}
            latest == {i \in hits : \A j \in hits : reps[j].date <= reps[i].date}
            opsFind == Append(issued, "reports.find_one")
        IN  IF failAt = Len(opsFind) THEN [value |-> None, ops |-> opsFind]
            ELSE IF hits = {} THEN [value |-> None, ops |-> opsFind]
            ELSE [value |-> reps[CHOOSE i \in latest : \A j \in latest : i <= j],
                  ops |-> opsFind]

\* _extract_scores_from_report: label -> accuracy
extract_scores_from_report(report_doc) ==
    IF report_doc = None THEN <<>>
    ELSE LET section_report == report_doc.report.section_report
             slugs == SelectSeq(SECTION_ORDER, LAMBDA s : s \in DOMAIN section_report)
         IN  [i \in 1..Len(slugs) |->
                [label |-> section_report[slugs[i]].label,
                 value |-> section_report[slugs[i]].accuracy]]

\* the change, in points, from which a comparison reports a section
ComparisonThreshold == 2

\* _build_comparison_payload reporting a section only beyond the threshold
build_comparison_payload_strict(current_scores, previous_scores, previous_doc) ==
    IF Len(previous_scores) = 0 THEN None
    ELSE
        LET named == {previous_scores[i].label : i \in 1..Len(previous_scores)}
                        \cup {current_scores[i].label : i \in 1..Len(current_scores)}
            labels == SelectSeq(SortedLabels, LAMBDA l : l \in named)
            Entry(label) ==
                LET prev_val == ItemsGet(previous_scores, label)
                    curr_val == ItemsGet(current_scores, label)
                    delta == curr_val - prev_val
                IN  [label |-> label, previous |-> prev_val, current |-> curr_val,
                     delta |-> delta,
                     status |-> IF delta > ComparisonThreshold * Point THEN "improved"
                                ELSE IF delta < 0 - ComparisonThreshold * Point THEN "downgraded"
                                ELSE "stable"]
            sections == [i \in 1..Len(labels) |-> Entry(labels[i])]
            metadata ==
                [sections |-> sections,
                 improved |-> SelectSeq(sections, LAMBDA e : e.status = "improved"),
                 downgraded |-> SelectSeq(sections, LAMBDA e : e.status = "downgraded"),
                 stable |-> SelectSeq(sections, LAMBDA e : e.status = "stable")]
        IN  IF previous_doc # None
            THEN metadata @@ [previous_report_id |-> previous_doc._id,
                              previous_report_date |-> previous_doc.date]
            ELSE metadata

\* _build_comparison_payload
build_comparison_payload(current_scores, previous_scores, previous_doc) ==
    IF Len(previous_scores) = 0 THEN None
    ELSE
        LET named == {previous_scores[i].label : i \in 1..Len(previous_scores)}
                        \cup {current_scores[i].label : i \in 1..Len(current_scores)}
            labels == SelectSeq(SortedLabels, LAMBDA l : l \in named)
            Entry(label) ==
                LET prev_val == ItemsGet(previous_scores, label)
                    curr_val == ItemsGet(current_scores, label)
                    delta == curr_val - prev_val
                IN  [label |-> label, previous |-> prev_val, current |-> curr_val,
                     delta |-> delta,
                     status |-> IF delta >= ComparisonThreshold * Point THEN "improved"
                                ELSE IF delta <= 0 - ComparisonThreshold * Point THEN "downgraded"
                                ELSE "stable"]
            sections == [i \in 1..Len(labels) |-> Entry(labels[i])]
            metadata ==
                [sections |-> sections,
                 improved |-> SelectSeq(sections, LAMBDA e : e.status = "improved"),
                 downgraded |-> SelectSeq(sections, LAMBDA e : e.status = "downgraded"),
                 stable |-> SelectSeq(sections, LAMBDA e : e.status = "stable")]
        IN  IF previous_doc # None
            THEN metadata @@ [previous_report_id |-> previous_doc._id,
                              previous_report_date |-> previous_doc.date]
            ELSE metadata

\* _build_prompt: what the prompt embeds
build_prompt(performance, comparison) ==
    [performance |-> performance,
     comparison |-> IF comparison # None THEN comparison.sections ELSE <<>>]

\* what the remote service can do with one request, and what json.loads makes
\* of the message content it returns.  empty_choices is a body whose "choices"
\* is an empty list; a body without "choices" has the content "empty".
RemoteOutcomes ==
    { [kind |-> "timeout"],
      [kind |-> "http_error", status |-> 500],
      [kind |-> "http_error", status |-> 429],
      [kind |-> "http_error", status |-> 401],
      [kind |-> "body_not_json"],
      [kind |-> "empty_choices"],
      [kind |-> "content", content |-> "json object",
       loads |-> [py |-> "dict", truthy |-> TRUE, items |-> [classification |-> "remote"]]],
      [kind |-> "content", content |-> "json empty object",
       loads |-> [py |-> "dict", truthy |-> FALSE, items |-> <<>>]],
      [kind |-> "content", content |-> "json null", loads |-> [py |-> "NoneType", truthy |-> FALSE]],
      [kind |-> "content", content |-> "json number", loads |-> [py |-> "int", truthy |-> TRUE]],
      [kind |-> "content", content |-> "json string", loads |-> [py |-> "str", truthy |-> TRUE]],
      [kind |-> "content", content |-> "free text", loads |-> [py |-> "raises"]],
      [kind |-> "content", content |-> "empty", loads |-> [py |-> "raises"]] }

\* _call_llm, were the status of the response left unchecked: the body of an
\* error response is wrapped as free text
call_llm_unchecked_status(prompt, remote) ==
    LET opsPost == <<"requests.post">>
    IN  IF remote.kind = "timeout" THEN [raised |-> "Timeout", ops |-> opsPost]
        ELSE IF remote.kind = "http_error"
        THEN [raised |-> "", ops |-> opsPost,
              value |-> [py |-> "dict", truthy |-> TRUE, items |-> [text |-> "error body"]]]
        ELSE IF remote.kind = "body_not_json" THEN [raised |-> "JSONDecodeError", ops |-> opsPost]
        ELSE IF remote.kind = "empty_choices" THEN [raised |-> "IndexError", ops |-> opsPost]
        ELSE IF remote.loads.py = "raises"
        THEN [raised |-> "", ops |-> opsPost,
              value |-> [py |-> "dict", truthy |-> TRUE, items |-> [text |-> remote.content]]]
        ELSE [raised |-> "", ops |-> opsPost, value |-> remote.loads]

\* _call_llm: one requests.post with a timeout.  The value is what json.loads
\* gave, or {"text": raw} when it raised; dict values carry their items.
call_llm(prompt, remote) ==
    LET opsPost == <<"requests.post">>
    IN  IF remote.kind = "timeout" THEN [raised |-> "Timeout", ops |-> opsPost]
        ELSE IF remote.kind = "http_error" THEN [raised |-> "HTTPError", ops |-> opsPost]
        ELSE IF remote.kind = "body_not_json" THEN [raised |-> "JSONDecodeError", ops |-> opsPost]
        ELSE IF remote.kind = "empty_choices" THEN [raised |-> "IndexError", ops |-> opsPost]
        ELSE IF remote.loads.py = "raises"
        THEN [raised |-> "", ops |-> opsPost,
              value |-> [py |-> "dict", truthy |-> TRUE, items |-> [text |-> remote.content]]]
        ELSE [raised |-> "", ops |-> opsPost, value |-> remote.loads]

\* _summarize_study_plan of a dict
summarize_study_plan(study_plan) ==
    [classification |-> Get(study_plan, "classification"),
     seven_day_focus |-> Get(study_plan, "seven_day_plan"),
     thirty_day_roadmap |-> Get(study_plan, "thirty_day_plan"),
     resources |-> Get(study_plan, "topic_resources"),
     booklist |-> Get(study_plan, "booklist"),
     daily_plan |-> Get(study_plan, "daily_plan"),
     pyq_strategy |-> Get(study_plan, "pyq_strategy"),
     comparison_insights |-> Get(study_plan, "comparison_insights"),
     trend_summary |-> Get(study_plan, "trend_summary")]

\* the subjects in the reverse of the order the mapping holds them
SortByValue_reversed(items) == [i \in 1..Len(items) |-> items[Len(items) + 1 - i]]

\* the subjects left in the order the mapping holds them
SortByValue_unsorted(items) == items

RECURSIVE SortByValue(_)
\* sorted(subjects, key=lambda s: perf[s]): stable, ascending
SortByValue(items) ==
    IF Len(items) <= 1 THEN items
    ELSE LET rest == SortByValue(SubSeq(items, 1, Len(items) - 1))
             last == items[Len(items)]
             before == {i \in 1..Len(rest) : rest[i].value <= last.value}
             k == IF before = {} THEN 0 ELSE CHOOSE i \in before : \A j \in before : j <= i
         IN  SubSeq(rest, 1, k) \o <<last>> \o SubSeq(rest, k + 1, Len(rest))

\* the score, in points, under which a section's reason is conceptual gaps
ReasonThreshold == 60

\* _deterministic_generate; the keys 7_day_plan and 30_day_plan are the fields
\* seven_day_plan and thirty_day_plan
deterministic_generate(perf, comparison) ==
    IF Len(perf) = 0 THEN [message |-> "No performance data provided."]
    ELSE
        LET subjects == [i \in 1..Len(perf) |-> perf[i].label]
            Score(s) == ItemsGet(perf, s)
            classification == [i \in 1..Len(perf) |->
                                  [subject |-> subjects[i], label |-> classify_score(Score(subjects[i]))]]
            Class(s) == classify_score(Score(s))
            weak == SelectSeq(subjects, LAMBDA s : Class(s) \in {"Critical Weak", "Weak"})
            strong == SelectSeq(subjects, LAMBDA s : Class(s) \in {"Strong", "Excellent"})
            reasons == [i \in 1..Len(perf) |->
                           [subject |-> subjects[i],
                            reason |-> IF Score(subjects[i]) < ReasonThreshold * Point
                                       THEN "Conceptual gaps and low PYQ coverage."
                                       ELSE "Needs more timed practice to boost accuracy."]]
            from == IF Len(weak) > 0 THEN weak ELSE subjects
            focus == SubSeq(from, 1, IF Len(from) < 2 THEN Len(from) ELSE 2)
            second == IF Len(focus) > 1 THEN focus[2] ELSE subjects[1]
            seven_day ==
                << [day |-> "Day 1", plan |-> <<"Brush up NCERT notes for ", focus[1], " and jot key mind-maps.">>],
                   [day |-> "Day 2", plan |-> <<"Topic drills + PYQs for ", focus[1], ".">>],
                   [day |-> "Day 3", plan |-> <<"Concept revisions for ", second, " plus 30 MCQs.">>],
                   [day |-> "Day 4", plan |-> <<"Current Affairs consolidation">>],
                   [day |-> "Day 5", plan |-> <<"Geography atlas work + map-based MCQs.">>],
                   [day |-> "Day 6", plan |-> <<"Full-length mixed mock (100 Qs) under exam conditions.">>],
                   [day |-> "Day 7", plan |-> <<"Error log review + revision flashcards.">>] >>
            sorted_by_need == SortByValue(perf)
            week_plans ==
                << [week |-> "Week 1", plan |-> <<sorted_by_need[1].label, " deep dive; integrate PYQs">>],
                   [week |-> "Week 2",
                    plan |-> <<IF Len(sorted_by_need) > 1 THEN sorted_by_need[2].label
                               ELSE sorted_by_need[1].label,
                               " + Current Affairs consolidation">>],
                   [week |-> "Week 3", plan |-> <<"Economy & Environment alternating days + answer writing">>],
                   [week |-> "Week 4", plan |-> <<"Comprehensive revision + mixed mocks (2) + error log fixes">>] >>
            topic_resources ==
                [i \in 1..Len(perf) |->
                    [subject |-> subjects[i],
                     resources |-> <<"NCERT summary", DEFAULT_BOOKLIST[subjects[i]][1],
                                     "Vision/PT365 notes for rapid revision">>]]
            summary_lines ==
                IF comparison = None THEN <<>>
                ELSE (IF Len(comparison.improved) > 0 THEN <<"Improved">> ELSE <<>>)
                        \o (IF Len(comparison.downgraded) > 0 THEN <<"Downgraded">> ELSE <<>>)
                        \o (IF Len(comparison.stable) > 0 THEN <<"Stable">> ELSE <<>>)
            plan ==
                [classification |-> classification,
                 weak_subjects |-> weak,
                 strong_subjects |-> strong,
                 reasons |-> reasons,
                 seven_day_plan |-> seven_day,
                 thirty_day_plan |-> week_plans,
                 topic_resources |-> topic_resources,
                 booklist |-> [i \in 1..Len(perf) |->
                                  [subject |-> subjects[i], books |-> DEFAULT_BOOKLIST[subjects[i]]]],
                 daily_plan |-> [mcq_per_day |-> 60, revision_minutes |-> 90],
                 pyq_strategy |-> "Target the last 7 years topic-wise"]
        IN  IF comparison = None THEN plan
            ELSE IF Len(summary_lines) > 0
            THEN plan @@ [comparison_insights |-> comparison, trend_summary |-> summary_lines]
            ELSE plan @@ [comparison_insights |-> comparison]

\* generate: the plan returned, and the store and remote calls issued.
\* has_key is PlannerAgent.api_key being set; remote is what the remote
\* service does with the request, if one is sent.
generate(reps, has_key, performance, user_id, user_email, remote, failAt, issued) ==
    LET display_perf == normalize_performance(performance)
        previous == fetch_previous_report(reps, user_email, user_id, failAt, issued)
        previous_doc == previous.value
        previous_scores == extract_scores_from_report(previous_doc)
        comparison == build_comparison_payload(display_perf, previous_scores, previous_doc)
        prompt == build_prompt(display_perf, comparison)
        called == call_llm(prompt, remote)
        deterministic == deterministic_generate(display_perf, comparison)
        fallback == [raised |-> "",
                     value |-> deterministic @@ [plan_sections |-> summarize_study_plan(deterministic)],
                     ops |-> previous.ops \o (IF has_key THEN called.ops ELSE <<>>)]
        WithComparison(d) ==
            IF comparison # None THEN d @@ [comparison_insights |-> comparison] ELSE d
    IN  IF has_key /\ called.raised = "" /\ called.value.truthy
        THEN IF called.value.py = "dict"
             THEN [raised |-> "",
                   value |-> WithComparison(called.value.items)
                                @@ [plan_sections |-> summarize_study_plan(called.value.items)],
                   ops |-> previous.ops \o called.ops]
             ELSE [raised |-> "",
                   value |-> WithComparison([text |-> called.value])
                                @@ [plan_sections |->
                                        IF called.value.py = "str"
                                        THEN [raw_text |-> called.value] ELSE <<>>],
                   ops |-> previous.ops \o called.ops]
        ELSE fallback

-----------------------------------------------------------------------------
(* Submission evaluation.                                                  *)

\* the methods class LLMSchedulePlanner defines
LLMSchedulePlannerMethods == {"__init__"}

\* (correct / total) * 100 cut to two decimals instead of rounded
Accuracy_truncated(correct, total) ==
    (correct * 100 * Point) \div total

\* round(x * 100 / y, 2) in hundredths, for 0 <= x <= y, y > 0 (round half even)
Accuracy(correct, total) ==
    LET num == correct * 100 * Point
        q == num \div total
        r == num % total
    IN  IF 2 * r < total THEN q
        ELSE IF 2 * r > total THEN q + 1
        ELSE IF q % 2 = 0 THEN q ELSE q + 1

\* the documents questions.find returns for the submitted non-mock identifiers
\* a local variable of a method: value is computed once and F sees the result
With(value, F(_)) ==
    CHOOSE r \in {F(x) : x \in {value}} : TRUE

FindQuestions(bank, db_question_ids) ==
    {d \in bank :
        \/ \E i \in 1..Len(db_question_ids) :
              ~ObjectIdIsValid(db_question_ids[i]) /\ d.question_id = db_question_ids[i]
        \/ \E i \in 1..Len(db_question_ids) :
              ObjectIdIsValid(db_question_ids[i]) /\ d._id = db_question_ids[i]}

\* question_map.get(qid): found documents are keyed by question_id and by
\* str(_id); mock identifiers are rebuilt in process
QuestionMapGet(found, qid) ==
    IF StartsWith(qid, MockPrefix) THEN mock_question_from_id(qid)
    ELSE IF \E d \in found : (Truthy(d.question_id) /\ d.question_id = qid) \/ d._id = qid
    THEN CHOOSE d \in found : (Truthy(d.question_id) /\ d.question_id = qid) \/ d._id = qid
    ELSE None

EmptyStats == [s \in Sections |-> [total |-> 0, correct |-> 0, review |-> <<>>]]

RECURSIVE Grade_every_review(_, _)
\* a grading loop that records a review entry for every answer, right or wrong
Grade_every_review(found, answers) ==
    IF Len(answers) = 0 THEN EmptyStats
    ELSE
        LET qid == answers[Len(answers)].qid
            chosen == Upper(Strip(answers[Len(answers)].response))
            doc == QuestionMapGet(found, qid)
            section == normalize_section(doc.subject)
            correct_option == Upper(Strip(doc.correct_answer))
            rest == Grade_every_review(found, SubSeq(answers, 1, Len(answers) - 1))
        IN  [rest EXCEPT ![section] =
                [total |-> @.total + 1,
                 correct |-> IF chosen = correct_option THEN @.correct + 1 ELSE @.correct,
                 review |-> Append(@.review,
                                   [question_id |-> qid, section |-> section,
                                    section_label |-> SECTION_CONFIG[section].label,
                                    question |-> doc.question, topic |-> doc.topic,
                                    difficulty |-> doc.difficulty,
                                    selected_answer |-> chosen,
                                    correct_answer |-> correct_option])]]

\* a grading loop that grades every answer as it grades the first one
Grade_as_first(found, answers) ==
    LET doc == QuestionMapGet(found, answers[1].qid)
        section == normalize_section(doc.subject)
        right == Upper(Strip(answers[1].response)) = Upper(Strip(doc.correct_answer))
    IN  [EmptyStats EXCEPT ![section] =
            [total |-> Len(answers), correct |-> IF right THEN Len(answers) ELSE 0,
             review |-> <<>>]]

RECURSIVE Grade(_, _)
\* the grading loop over answers.items() (lines 806-833)
Grade(found, answers) ==
    IF Len(answers) = 0 THEN EmptyStats
    ELSE
        LET qid == answers[Len(answers)].qid
            chosen == Upper(Strip(answers[Len(answers)].response))
            Entry(doc, section, correct_option) ==
                [question_id |-> qid, section |-> section,
                 section_label |-> SECTION_CONFIG[section].label,
                 question |-> doc.question, topic |-> doc.topic,
                 difficulty |-> doc.difficulty,
                 selected_answer |-> chosen, correct_answer |-> correct_option]
            Count(stats, doc, section, correct_option) ==
                [stats EXCEPT ![section] =
                    [total |-> @.total + 1,
                     correct |-> IF chosen = correct_option THEN @.correct + 1 ELSE @.correct,
                     review |-> IF chosen = correct_option THEN @.review
                                ELSE Append(@.review, Entry(doc, section, correct_option))]]
        IN  With(QuestionMapGet(found, qid),
                 LAMBDA doc : With(normalize_section(doc.subject),
                     LAMBDA section : With(Upper(Strip(doc.correct_answer)),
                         LAMBDA correct_option :
                             Count(Grade(found, SubSeq(answers, 1, Len(answers) - 1)),
                                   doc, section, correct_option))))

\* _public_user_payload
public_user_payload(user, fallback_id) ==
    IF user = None THEN [id |-> fallback_id]
    ELSE [id |-> user._id, name |-> user.name, email |-> user.email,
          phoneNumber |-> user.phoneNumber]

\* evaluate_test from the weekly schedule on (lines 858-883): the schedule
\* planner is asked for a method it may not have
EvaluateAssemble(reps, clock, has_key, user_id, remote, failAt, section_report, test_summary, persist, history, feedback, performance) ==
    LET user_email == IF persist.user_doc = None THEN NoStr ELSE persist.user_doc.email
        progress == [users |-> persist.users, section_report |-> section_report,
                     test_summary |-> test_summary,
                     persisted |-> persist.persisted, history |-> history,
                     feedback |-> feedback]
    IN  IF "build_schedule_from_percentages" \notin LLMSchedulePlannerMethods
        THEN [raised |-> "AttributeError", message |-> "build_schedule_from_percentages",
              reports |-> reps, ops |-> persist.ops,
              steps |-> <<"grade", "persist_score", "load_history", "build_feedback">>]
                @@ progress
        ELSE
            LET Report(study) ==
                    [user |-> public_user_payload(persist.user_doc, user_id),
                     test_summary |-> test_summary,
                     section_report |-> section_report,
                     feedback |-> feedback,
                     study_plan |-> study.value,
                     study_plan_sections |-> summarize_study_plan(study.value),
                     history |-> history,
                     weekly_schedule |-> None,
                     persistence |-> persist.persisted]
                Returned(report, stored) ==
                    [raised |-> "",
                     value |-> report @@ [report_storage |-> stored.report_storage],
                     reports |-> stored.reports, ops |-> stored.ops,
                     steps |-> <<"grade", "persist_score", "load_history", "build_feedback",
                                 "build_schedule", "generate", "persist_final_report">>]
                        @@ progress
            IN  With(generate(reps, has_key, performance, user_id, user_email, remote,
                              failAt, persist.ops),
                     LAMBDA study : With(Report(study),
                         LAMBDA report : With(persist_final_report(reps, report, user_id,
                                                                   user_email, clock + 1,
                                                                   failAt, study.ops),
                             LAMBDA stored : Returned(report, stored))))

\* evaluate_test after _persist_score (lines 855-857): history and feedback
EvaluatePersisted(reps, clock, has_key, user_id, remote, failAt, section_report, test_summary, percentage_scores, persist) ==
    IF persist.raised # ""
    THEN [raised |-> persist.raised, message |-> "_find_user",
          users |-> persist.users, reports |-> reps, ops |-> persist.ops,
          steps |-> <<"grade">>, section_report |-> section_report,
          test_summary |-> test_summary]
    ELSE
        LET history == load_history(persist.user_doc)
            performance ==
                [i \in 1..Len(SECTION_ORDER) |->
                    [key |-> <<SECTION_CONFIG[SECTION_ORDER[i]].label>>,
                     value |-> percentage_scores[SECTION_CONFIG[SECTION_ORDER[i]].label]]]
        IN  With(history,
                 LAMBDA loaded : With(build_feedback(loaded, percentage_scores),
                     LAMBDA feedback : EvaluateAssemble(reps, clock, has_key, user_id, remote,
                                                        failAt, section_report, test_summary,
                                                        persist, loaded, feedback,
                                                        performance)))

\* evaluate_test from the section report to _persist_score (lines 835-854)
EvaluateGraded(coll, reps, clock, has_key, user_id, remote, failAt, issued, stats) ==
    LET Sum(field) ==
            LET RECURSIVE Upto(_)
                Upto(i) == IF i = 0 THEN 0 ELSE Upto(i - 1) + stats[SECTION_ORDER[i]][field]
            IN  Upto(Len(SECTION_ORDER))
        AccuracyOf(section) ==
            IF stats[section].total # 0
            THEN Accuracy(stats[section].correct, stats[section].total) ELSE 0
        percentage_scores ==
            [l \in Labels |-> AccuracyOf(CHOOSE s \in Sections : SECTION_CONFIG[s].label = l)]
        section_report ==
            [section \in Sections |->
                [label |-> SECTION_CONFIG[section].label,
                 total |-> stats[section].total,
                 correct |-> stats[section].correct,
                 accuracy |-> AccuracyOf(section),
                 incorrect_questions |-> stats[section].review]]
        test_summary ==
            [total_questions |-> Sum("total"),
             total_correct |-> Sum("correct"),
             overall_accuracy |-> IF Sum("total") # 0
                                  THEN Accuracy(Sum("correct"), Sum("total")) ELSE 0]
    IN  With(percentage_scores,
             LAMBDA scores : With(persist_score(coll, user_id, scores, clock, failAt, issued),
                 LAMBDA persist : EvaluatePersisted(reps, clock, has_key, user_id, remote,
                                                    failAt, section_report, test_summary,
                                                    scores, persist)))

\* evaluate_test.  failAt is the number of the store call of this request that
\* raises PyMongoError (0: none); questions.find and the iteration of its
\* cursor are two store calls.  The outcome carries what the caller observes
\* (raised, value), the collections afterwards, the calls issued and the
\* values of the steps completed.
evaluate_test(bank, coll, reps, clock, has_key, user_id, answers, remote, failAt) ==
    IF Len(answers) = 0
    THEN [raised |-> "ValueError", message |-> "answers payload cannot be empty",
          users |-> coll, reports |-> reps, ops |-> <<>>, steps |-> <<>>]
    ELSE
        LET question_ids == [i \in 1..Len(answers) |-> answers[i].qid]
            db_question_ids == SelectSeq(question_ids, LAMBDA q : ~StartsWith(q, MockPrefix))
            opsFind == IF Len(db_question_ids) > 0 THEN <<"questions.find">> ELSE <<>>
            opsCursor == IF Len(db_question_ids) > 0
                         THEN <<"questions.find", "questions.cursor">> ELSE <<>>
            found == FindQuestions(bank, db_question_ids)
            missing_ids == SelectSeq(question_ids, LAMBDA q : QuestionMapGet(found, q) = None)
        IN  IF Len(opsFind) > 0 /\ failAt = Len(opsFind)
            THEN [raised |-> "ValueError", message |-> "Unable to load questions from database",
                  users |-> coll, reports |-> reps, ops |-> opsFind, steps |-> <<>>]
            ELSE IF Len(opsCursor) > 0 /\ failAt = Len(opsCursor)
            THEN [raised |-> "PyMongoError", message |-> "cursor",
                  users |-> coll, reports |-> reps, ops |-> opsCursor, steps |-> <<>>]
            ELSE IF Len(missing_ids) > 0
            THEN [raised |-> "ValueError", message |-> "Unknown question_ids supplied",
                  users |-> coll, reports |-> reps, ops |-> opsCursor, steps |-> <<>>]
            ELSE With(Grade(found, answers),
                      LAMBDA stats : EvaluateGraded(coll, reps, clock, has_key, user_id,
                                                    remote, failAt, opsCursor, stats))

-----------------------------------------------------------------------------
(* Initial states.                                                         *)

NoResult == [op |-> "none"]

InitStore ==
    /\ user_store = InMemoryUserStore
    /\ users = <<>>
    /\ reports = <<>>
    /\ now = 0
    /\ api_key = FALSE

-----------------------------------------------------------------------------
(* Specification of the store: one evaluate_test request against a store   *)
(* that already holds users, score history and possibly an earlier report. *)

FullBank == LiveDocs \cup {MistaggedDoc}

\* a stored ScoreSnapshot; only polity and economy were attempted
Snapshot(date, polity, economy) ==
    [date |-> date,
     sections |-> [s \in Sections |->
                      IF s = "polity" THEN polity ELSE IF s = "economy" THEN economy ELSE 0]]

\* the score history user 1 starts with: none, or two earlier attempts
PriorHistories ==
    {<<>>, <<Snapshot(1, 50 * Point, 100 * Point), Snapshot(2, 100 * Point, 0)>>}

\* a report persisted by an earlier evaluation of user 1
PriorReport ==
    [_id |-> 1, date |-> 3, user_id |-> UserObjectId(1), user_email |-> UserDoc(1, <<>>).email,
     report |-> [section_report |->
                    [s \in Sections |->
                        [label |-> SECTION_CONFIG[s].label, total |-> 1,
                         correct |-> IF s = "polity" THEN 1 ELSE 0,
                         accuracy |-> IF s = "polity" THEN 100 * Point ELSE 0,
                         incorrect_questions |-> <<>>]]]]

Init ==
    /\ questions = FullBank
    /\ user_store = InMemoryUserStore
    /\ users \in {<<UserDoc(1, h), UserDoc(2, <<>>)>> : h \in PriorHistories}
    /\ reports \in {<<>>, <<PriorReport>>}
    /\ now = 4
    /\ api_key \in BOOLEAN
    /\ result = NoResult

\* the identifiers a submission may hold: a fallback question, a live question
\* addressed by question_id, a live question addressed by its ObjectId, an
\* identifier of no live question, and a fallback-looking identifier of no section
AnswerIds ==
    { MockQid(SectionChars["polity"], 0),
      LiveDoc("economy", 1).question_id,
      LiveDoc("history", 2)._id,
      <<"q", "9">>,
      MockPrefix \o <<"b", "o", "g", "u", "s", "-", "0", "0", "0", "1">> }

Responses == {<<"A">>, <<" ", "b", " ">>}

RECURSIVE AnswerInputs(_)
\* the answers mappings of k entries, as items in insertion order
AnswerInputs(k) ==
    IF k = 0 THEN {<<>>}
    ELSE {Append(a, [qid |-> q, response |-> r]) :
            a \in AnswerInputs(k - 1), q \in AnswerIds, r \in Responses}

DistinctKeys(a) == \A i, j \in 1..Len(a) : i # j => a[i].qid # a[j].qid

\* user_id: absent, user 1 by ObjectId, user 1 by e-mail in another case and
\* padded, user 2 by phone number, and an identifier of no user
UserIds == {NoStr, UserObjectId(1), <<" ", "A", "@", "X", " ">>, <<"9", "2">>, <<"n", "o">>}

\* the largest number of the store call that is made to fail
MaxFailAt == 8

EvaluateTest ==
    /\ result = NoResult
    /\ \E user_id \in UserIds, k \in 0..MaxAnswers, failAt \in 0..MaxFailAt :
        \E answers \in {a \in AnswerInputs(k) : DistinctKeys(a)} :
            \E remote \in IF "build_schedule_from_percentages" \in LLMSchedulePlannerMethods
                          THEN RemoteOutcomes ELSE {[kind |-> "timeout"]} :
                /\ \E out \in {evaluate_test(questions, users, reports, now, api_key,
                                              user_id, answers, remote, failAt)} :
                       /\ result' = [op |-> "evaluate_test",
                                     args |-> [user_id |-> user_id, answers |-> answers,
                                               failAt |-> failAt]] @@ out
                       /\ users' = out.users
                       /\ reports' = out.reports
                /\ now' = now + 2
                /\ UNCHANGED <<questions, api_key, user_store>>

Next == EvaluateTest

Spec == Init /\ [][Next]_vars

-----------------------------------------------------------------------------
(* Evaluation claims.                                                      *)

\* the identifier has the form mock-<section>-<digits>
IsMockForm(qid, section) ==
    LET head == MockPrefix \o SectionChars[section] \o <<"-">>
    IN  /\ StartsWith(qid, head)
        /\ IsDigits(SubSeq(qid, Len(head) + 1, Len(qid)))

\* the identifier names a question: a fallback question of a canonical
\* section, or a live document by its question_id or its ObjectId
Resolvable(qid) ==
    \/ \E s \in Sections : IsMockForm(qid, s)
    \/ qid # <<>> /\ \E d \in questions : d.question_id = qid \/ d._id = qid

AllResolvable(answers) == \A i \in 1..Len(answers) : Resolvable(answers[i].qid)

\* the identifier names a user of the collection, the way _find_user looks
KnownUser(coll, user_id) ==
    /\ Truthy(user_id)
    /\ \E i \in 1..Len(coll) :
          \/ coll[i]._id = Strip(user_id)
          \/ coll[i].email = Lower(Strip(user_id))
          \/ coll[i].phoneNumber = Strip(user_id)

\* the store call of the request that was made to fail, "none" when the
\* request ended before it or none was to fail
FailedCall(r) ==
    IF r.args.failAt \in 1..Len(r.ops) THEN r.ops[r.args.failAt] ELSE "none"

Issued(r, call) == \E i \in 1..Len(r.ops) : r.ops[i] = call

\* the failed call is a find_one of _find_user (not the refresh after the push)
LookupFailed(r) == FailedCall(r) = "users.find_one" /\ ~Issued(r, "users.update_one")

PipelineSteps ==
    <<"grade", "persist_score", "load_history", "build_feedback",
      "build_schedule", "generate", "persist_final_report">>

\* C2: evaluate_test raises when answers is empty or when some submitted
\* identifier resolves to no question, and then nothing was done: no section
\* is scored, no snapshot is appended to any user, no report is inserted and
\* no write reaches the store, whatever the other identifiers are.
C2_RaisesAtomically ==
    [][(/\ result'.op = "evaluate_test"
        /\ \/ Len(result'.args.answers) = 0
           \/ ~AllResolvable(result'.args.answers))
       => /\ result'.raised # ""
          /\ result'.steps = <<>>
          /\ "section_report" \notin DOMAIN result'
          /\ users' = users
          /\ reports' = reports
          /\ ~Issued(result', "users.update_one")
          /\ ~Issued(result', "reports.insert_one")]_vars

\* user 1, known, submits a valid fallback identifier and then an identifier
\* of no question; no store call fails and the evaluation raises ValueError
C2_Witness ==
    /\ result.op = "evaluate_test"
    /\ result.args.user_id = UserObjectId(1)
    /\ result.args.failAt = 0
    /\ Len(result.args.answers) = 2
    /\ Resolvable(result.args.answers[1].qid)
    /\ ~Resolvable(result.args.answers[2].qid)
    /\ result.raised = "ValueError"
    /\ result.message = "Unknown question_ids supplied"

\* C3: for every non-empty answers mapping whose identifiers all resolve and
\* every user_id, evaluate_test does not raise and returns a Report with the
\* test summary, section reports, feedback, study plan, history and
\* persistence flags, every step after grading having run.
C3_EvaluationCompletes ==
    (/\ result.op = "evaluate_test"
     /\ Len(result.args.answers) > 0
     /\ AllResolvable(result.args.answers)
     /\ result.args.failAt = 0)
    => /\ result.raised = ""
       /\ result.steps = PipelineSteps
       /\ {"test_summary", "section_report", "feedback", "study_plan", "history",
           "persistence", "report_storage"} \subseteq DOMAIN result.value

\* C7: a store failure while the live identifiers are resolved or while the
\* user is looked up is not surfaced: evaluate_test raises neither a store
\* error nor an error made from it, and the failed lookup gives the history
\* {available: false, entries: []}.
C7_FailuresNotSurfaced ==
    (/\ result.op = "evaluate_test"
     /\ \/ FailedCall(result) \in {"questions.find", "questions.cursor"}
        \/ LookupFailed(result))
    => /\ result.raised \notin {"PyMongoError", "ValueError"}
       /\ LookupFailed(result) =>
             result.history = [available |-> FALSE, entries |-> <<>>]

\* C8: a failed append to users.testScores or a failed insert into reports
\* raises nothing: evaluate_test returns a Report whose persistence,
\* respectively report_storage, is {saved: false, message: reason}.
C8_WriteFailuresDoNotBlock ==
    (/\ result.op = "evaluate_test"
     /\ FailedCall(result) \in {"users.update_one", "reports.insert_one"})
    => /\ result.raised = ""
       /\ FailedCall(result) = "users.update_one" =>
             /\ result.value.persistence.saved = FALSE
             /\ "message" \in DOMAIN result.value.persistence
       /\ FailedCall(result) = "reports.insert_one" =>
             /\ result.value.report_storage.saved = FALSE
             /\ "message" \in DOMAIN result.value.report_storage

\* C9: a graded submission appends a snapshot to testScores exactly when the
\* user_id names a known user and the write succeeds; for an absent or unknown
\* user_id nothing is written to users, persistence.saved is false and a
\* Report is still returned; the snapshot has an accuracy for each of the 7
\* section keys.
C9_SnapshotIffKnownUser ==
    [][(/\ result'.op = "evaluate_test"
        /\ "section_report" \in DOMAIN result'
        /\ ~LookupFailed(result'))
       => /\ users' # users
             <=> /\ KnownUser(users, result'.args.user_id)
                 /\ FailedCall(result') # "users.update_one"
          /\ ~KnownUser(users, result'.args.user_id) =>
                /\ users' = users
                /\ ~Issued(result', "users.update_one")
                /\ result'.raised = ""
                /\ result'.value.persistence.saved = FALSE
          /\ \A i \in 1..Len(users) :
                users'[i] # users[i] =>
                    /\ Len(users'[i].testScores) = Len(users[i].testScores) + 1
                    /\ DOMAIN users'[i].testScores[Len(users'[i].testScores)].sections
                           = Sections]_vars

-----------------------------------------------------------------------------
(* Specification of scoring: one evaluate_test request whose answers fall  *)
(* into few sections, so that a section holds up to MaxScored questions.   *)

\* the full bank, no report yet and no API key; user 1 with or without history
InitScored ==
    /\ questions = FullBank
    /\ user_store = InMemoryUserStore
    /\ users \in {<<UserDoc(1, h), UserDoc(2, <<>>)>> : h \in PriorHistories}
    /\ reports = <<>>
    /\ now = 4
    /\ api_key = FALSE
    /\ result = NoResult

\* the largest number of answers of a scored submission
MaxScored == 3

\* three fallback questions of polity (the third a later variant), the first
\* live question of polity and the second live question of economy
ScoredIds ==
    { MockQid(SectionChars["polity"], 0),
      MockQid(SectionChars["polity"], 1),
      MockQid(SectionChars["polity"], 5),
      LiveDoc("polity", 1).question_id,
      LiveDoc("economy", 2)._id }

RECURSIVE ScoredInputs(_)
\* the answers mappings of k entries over ScoredIds, as items in insertion order
ScoredInputs(k) ==
    IF k = 0 THEN {<<>>}
    ELSE {Append(a, [qid |-> q, response |-> r]) :
            a \in ScoredInputs(k - 1), q \in ScoredIds, r \in Responses}

EvaluateScored ==
    /\ result = NoResult
    /\ \E user_id \in {NoStr, UserObjectId(1)}, k \in 0..MaxScored :
        \E answers \in {a \in ScoredInputs(k) : DistinctKeys(a)} :
            /\ \E out \in {evaluate_test(questions, users, reports, now, api_key,
                                          user_id, answers, [kind |-> "timeout"], 0)} :
                   /\ result' = [op |-> "evaluate_test",
                                 args |-> [user_id |-> user_id, answers |-> answers,
                                           failAt |-> 0]] @@ out
                   /\ users' = out.users
                   /\ reports' = out.reports
            /\ now' = now + 2
            /\ UNCHANGED <<questions, api_key, user_store>>

NextScored == EvaluateScored

SpecScored == InitScored /\ [][NextScored]_vars

\* the request graded its answers and built the section report
Graded(r) == r.op = "evaluate_test" /\ "section_report" \in DOMAIN r

\* the number of submitted answers
Submitted(r) == Len(r.args.answers)

\* value is correct / total * 100 to the nearest hundredth
NearestHundredth(value, correct, total) ==
    /\ 2 * (value * total - correct * 100 * Point) <= total
    /\ 2 * (correct * 100 * Point - value * total) <= total

\* C12: the section report of every evaluation has exactly the seven
\* canonical sections, an unattempted one with total 0, correct 0 and
\* accuracy 0; accuracy is correct / total * 100 rounded to two decimals,
\* lies in [0, 100] and is 0 when total is 0.
C12_SectionReport ==
    Graded(result) =>
        /\ DOMAIN result.section_report = Sections
        /\ Cardinality(DOMAIN result.section_report) = 7
        /\ \A s \in Sections :
              LET row == result.section_report[s]
              IN  /\ row.label = SECTION_CONFIG[s].label
                  /\ row.total \in 0..Submitted(result)
                  /\ row.correct \in 0..row.total
                  /\ row.accuracy \in 0..(100 * Point)
                  /\ row.total = 0 => row.correct = 0 /\ row.accuracy = 0
                  /\ row.total > 0 =>
                        NearestHundredth(row.accuracy, row.correct, row.total)

\* three polity questions, two of them answered correctly: accuracy 66.67,
\* and the six other sections unattempted
C12_Witness ==
    /\ Graded(result)
    /\ result.section_report["polity"].total = 3
    /\ result.section_report["polity"].correct = 2
    /\ result.section_report["polity"].accuracy = 6667
    /\ \A s \in Sections \ {"polity"} : result.section_report[s].total = 0

\* C28: score history and reports stay in step: a call of evaluate_test that
\* appended a snapshot to the user's testScores also attempts the insert into
\* reports before it ends, whether it ends normally or by an error.
C28_SnapshotThenReport ==
    [][(/\ result'.op = "evaluate_test"
        /\ \E i \in 1..Len(users) :
              Len(users'[i].testScores) > Len(users[i].testScores))
       => Issued(result', "reports.insert_one")]_vars

\* the question a submitted identifier names
AnsweredDoc(qid) ==
    IF StartsWith(qid, MockPrefix) THEN mock_question_from_id(qid)
    ELSE CHOOSE d \in questions : d.question_id = qid \/ d._id = qid

\* the canonical section that owns the question: the one encoded in a
\* fallback identifier, the one whose aliases hold the subject of a live question
OwnerOf(qid) ==
    IF StartsWith(qid, MockPrefix) THEN CHOOSE s \in Sections : IsMockForm(qid, s)
    ELSE CHOOSE s \in Sections :
            \E a \in SECTION_CONFIG[s].aliases : <<a>> = Strip(AnsweredDoc(qid).subject)

\* the two letters are equal after trimming and upper-casing
SameLetter(given, key) == Upper(Strip(given)) = Upper(Strip(key))

\* the answers of the submission that belong to the section, in order
AnswersOf(answers, s) == SelectSeq(answers, LAMBDA a : OwnerOf(a.qid) = s)

\* the review entry of a wrong answer
ReviewEntry(a) ==
    [question_id |-> a.qid, section |-> OwnerOf(a.qid),
     section_label |-> SECTION_CONFIG[OwnerOf(a.qid)].label,
     question |-> AnsweredDoc(a.qid).question, topic |-> AnsweredDoc(a.qid).topic,
     difficulty |-> AnsweredDoc(a.qid).difficulty,
     selected_answer |-> Upper(Strip(a.response)),
     correct_answer |-> Upper(Strip(AnsweredDoc(a.qid).correct_answer))]

\* C24: an answer is correct iff its letter equals the question's correct
\* letter after trimming and upper-casing both; every resolved question adds
\* 1 to the total of its owning section, a correct one adds 1 to the correct
\* count, a wrong one adds exactly one review entry with the prompt, topic,
\* difficulty, chosen and correct letters to that section.
C24_GradingRule ==
    Graded(result) =>
        \A s \in Sections :
            LET mine == AnswersOf(result.args.answers, s)
                right == SelectSeq(mine,
                             LAMBDA a : SameLetter(a.response,
                                                   AnsweredDoc(a.qid).correct_answer))
                wrong == SelectSeq(mine,
                             LAMBDA a : ~SameLetter(a.response,
                                                    AnsweredDoc(a.qid).correct_answer))
                row == result.section_report[s]
            IN  /\ row.total = Len(mine)
                /\ row.correct = Len(right)
                /\ row.incorrect_questions = [i \in 1..Len(wrong) |-> ReviewEntry(wrong[i])]

\* an economy question whose stored answer is " b" answered " b " (correct),
\* a polity question answered wrongly and one answered correctly
C24_Witness ==
    /\ Graded(result)
    /\ Submitted(result) = 3
    /\ result.section_report["economy"].total = 1
    /\ result.section_report["economy"].correct = 1
    /\ \E i \in 1..3 : /\ result.args.answers[i].qid = LiveDoc("economy", 2)._id
                       /\ result.args.answers[i].response = <<" ", "b", " ">>
    /\ result.section_report["polity"].total = 2
    /\ result.section_report["polity"].correct = 1
    /\ Len(result.section_report["polity"].incorrect_questions) = 1

\* the sum of a count of the section report over the sections
ReportSum(report, field) ==
    LET RECURSIVE Upto(_)
        Upto(i) == IF i = 0 THEN 0 ELSE Upto(i - 1) + report[SECTION_ORDER[i]][field]
    IN  Upto(Len(SECTION_ORDER))

\* C29: for every graded submission the section totals sum to the number of
\* submitted answers, which is test_summary.total_questions, the section
\* correct counts sum to test_summary.total_correct, in every section
\* 0 <= correct <= total, and the section has total - correct review entries.
C29_AggregatesConsistent ==
    Graded(result) =>
        /\ ReportSum(result.section_report, "total") = Submitted(result)
        /\ result.test_summary.total_questions = Submitted(result)
        /\ ReportSum(result.section_report, "correct") = result.test_summary.total_correct
        /\ \A s \in Sections :
              LET row == result.section_report[s]
              IN  /\ 0 <= row.correct
                  /\ row.correct <= row.total
                  /\ Len(row.incorrect_questions) = row.total - row.correct

\* three answers over two sections, one of them correct
C29_Witness ==
    /\ Graded(result)
    /\ Submitted(result) = 3
    /\ result.test_summary.total_correct = 1
    /\ result.section_report["polity"].total = 2
    /\ result.section_report["economy"].total = 1
    /\ Len(result.section_report["polity"].incorrect_questions)
          + Len(result.section_report["economy"].incorrect_questions) = 2

\* the number of times the request issued the store call
TimesIssued(r, call) == Cardinality({i \in 1..Len(r.ops) : r.ops[i] = call})

\* C14: each evaluate_test call that grades a submission creates one Report
\* and persists it exactly once: one insert into reports, no earlier report
\* changed or removed, and the report persisted is the assembled result.
C14_PersistedOnce ==
    [][(Graded(result') /\ result'.args.failAt = 0)
       => /\ TimesIssued(result', "reports.insert_one") = 1
          /\ Len(reports') = Len(reports) + 1
          /\ SubSeq(reports', 1, Len(reports)) = reports
          /\ result'.raised = ""
          /\ \A field \in DOMAIN reports'[Len(reports')].report :
                reports'[Len(reports')].report[field] = result'.value[field]]_vars

-----------------------------------------------------------------------------
(* Specification of concurrent evaluations: MaxCalls evaluate_test calls   *)
(* run at once over one users collection, each at its own position in      *)
(* _persist_score; a step is one access to the store.                      *)

\* the number of concurrent calls
MaxCalls == 2

Calls == 1..MaxCalls

\* a call not yet made
IdleCall == [pc |-> "idle"]

\* the percentage scores the grading of a call hands to _persist_score
GradedScores == [l \in Labels |-> IF l = "Polity" THEN 100 * Point ELSE 0]

\* user 1 by ObjectId, user 2 by phone number, no user
CallerIds == {UserObjectId(1), <<"9", "2">>, <<"n", "o">>}

InitConcurrent ==
    /\ questions = FullBank
    /\ user_store = InMemoryUserStore
    /\ users \in {<<UserDoc(1, h), UserDoc(2, <<>>)>> : h \in PriorHistories}
    /\ reports = <<>>
    /\ now = 4
    /\ api_key = FALSE
    /\ result = [op |-> "concurrent", base |-> users, calls |-> [c \in Calls |-> IdleCall]]

\* evaluate_test up to the call of _persist_score (lines 745-854): the
\* submission is graded; update_fails tells whether users.update_one will raise
Submit(c) ==
    /\ result.op = "concurrent"
    /\ result.calls[c].pc = "idle"
    /\ \E user_id \in CallerIds, update_fails \in BOOLEAN :
          result' = [result EXCEPT !.calls[c] =
                        [pc |-> "graded", user_id |-> user_id, scores |-> GradedScores,
                         update_fails |-> update_fails]]
    /\ UNCHANGED <<questions, users, reports, now, api_key, user_store>>

\* _persist_score, lines 910-912: _find_user reads the collection
FindUser(c) ==
    /\ result.op = "concurrent"
    /\ result.calls[c].pc = "graded"
    /\ LET call == result.calls[c]
           found == find_user(users, call.user_id, 0, <<>>)
       IN  result' = [result EXCEPT !.calls[c] =
                         IF found.value = None
                         THEN [pc |-> "returned", user_doc |-> None, persisted |-> FALSE]
                                 @@ call
                         ELSE [pc |-> "found", user_doc |-> found.value] @@ call]
    /\ UNCHANGED <<questions, users, reports, now, api_key, user_store>>

\* _persist_score, lines 914-926: the entry is built and users.update_one
\* pushes it; the store applies the push to the document it holds
Push(c) ==
    /\ result.op = "concurrent"
    /\ result.calls[c].pc = "found"
    /\ LET call == result.calls[c]
           entry == [date |-> now,
                     sections |-> [key \in Sections |-> call.scores[SECTION_CONFIG[key].label]]]
       IN  IF call.update_fails
           THEN /\ users' = users
                /\ result' = [result EXCEPT !.calls[c] =
                                 [pc |-> "returned", persisted |-> FALSE] @@ call]
           ELSE /\ users' = PushTestScore(users, call.user_doc._id, entry)
                /\ result' = [result EXCEPT !.calls[c] =
                                 [pc |-> "pushed", entry |-> entry] @@ call]
    /\ now' = now + 1
    /\ UNCHANGED <<questions, reports, api_key, user_store>>

\* _persist_score, lines 927-928: the user document is read again
Refresh(c) ==
    /\ result.op = "concurrent"
    /\ result.calls[c].pc = "pushed"
    /\ LET call == result.calls[c]
       IN  result' = [result EXCEPT !.calls[c] =
                         [pc |-> "returned", persisted |-> TRUE,
                          user_doc |-> FindOne(users, "_id", call.user_doc._id)] @@ call]
    /\ UNCHANGED <<questions, users, reports, now, api_key, user_store>>

\* evaluate_test, lines 855-858: history and feedback from the document the
\* call holds, then the schedule planner is asked for a method it may not have
Finish(c) ==
    /\ result.op = "concurrent"
    /\ result.calls[c].pc = "returned"
    /\ LET call == result.calls[c]
           history == load_history(call.user_doc)
       IN  result' = [result EXCEPT !.calls[c] =
                         [pc |-> "done", history |-> history,
                          feedback |-> build_feedback(history, call.scores),
                          raised |-> IF "build_schedule_from_percentages"
                                           \in LLMSchedulePlannerMethods
                                     THEN "" ELSE "AttributeError"] @@ call]
    /\ UNCHANGED <<questions, users, reports, now, api_key, user_store>>

NextConcurrent ==
    \E c \in Calls : Submit(c) \/ FindUser(c) \/ Push(c) \/ Refresh(c) \/ Finish(c)

SpecConcurrent == InitConcurrent /\ [][NextConcurrent]_vars

\* the calls whose push to the testScores of the user succeeded
PushedFor(id) ==
    {c \in Calls : /\ "entry" \in DOMAIN result.calls[c]
                   /\ result.calls[c].user_doc._id = id}

\* C15: under any interleaving of concurrent evaluate_test calls no snapshot
\* is lost or overwritten: the testScores of every user is what it was at
\* the start followed by exactly one entry for each call made for that user
\* whose write succeeded, and nothing else of any user changes.
C15_NoSnapshotLost ==
    result.op = "concurrent" =>
        /\ Len(users) = Len(result.base)
        /\ \A i \in 1..Len(users) :
              LET before == result.base[i].testScores
                  after == users[i].testScores
                  mine == PushedFor(users[i]._id)
              IN  /\ [users[i] EXCEPT !.testScores = before] = result.base[i]
                  /\ Len(after) = Len(before) + Cardinality(mine)
                  /\ SubSeq(after, 1, Len(before)) = before
                  /\ \A c \in mine :
                        Cardinality({j \in 1..Len(after) :
                                        after[j] = result.calls[c].entry}) = 1
        /\ \A c \in Calls :
              (result.calls[c].pc = "done" /\ result.calls[c].persisted)
                  => "entry" \in DOMAIN result.calls[c]

\* every call is for user 1 and read the user before any of them pushed, and
\* all the pushes are in the testScores of user 1
C15_Witness ==
    /\ result.op = "concurrent"
    /\ \A c \in Calls : result.calls[c].pc = "pushed"
    /\ \A c \in Calls : result.calls[c].user_doc = result.base[1]
    /\ Len(users[1].testScores) = Len(result.base[1].testScores) + MaxCalls

\* the generic guidance _build_feedback gives without two snapshots
GenericFeedback ==
    [summary |-> <<"No prior attempts available.">>,
     improved_sections |-> <<>>, regressed_sections |-> <<>>, stable_sections |-> <<>>]

\* the records of a feedback, whatever their bucket
FeedbackRecords(feedback) ==
    feedback.improved_sections \o feedback.regressed_sections \o feedback.stable_sections

\* C21: trend feedback compares exactly the last two snapshots of the user's
\* history: the last entry is the snapshot of this attempt and gives the
\* current values, the entry before it gives the previous values, also when
\* the write of the snapshot failed or another call appended in between;
\* with fewer than two snapshots the generic guidance is returned.
C21_LastTwoSnapshots ==
    result.op = "concurrent" =>
        \A c \in Calls :
            result.calls[c].pc = "done" =>
                LET call == result.calls[c]
                    entries == call.history.entries
                    records == FeedbackRecords(call.feedback)
                IN  IF Len(entries) < 2 THEN call.feedback = GenericFeedback
                    ELSE /\ "entry" \in DOMAIN call
                         /\ entries[Len(entries)].sections = call.entry.sections
                         /\ entries[Len(entries)].date = call.entry.date
                         /\ Len(records) = Len(SECTION_ORDER)
                         /\ \A i \in 1..Len(records) :
                               \E s \in Sections :
                                  /\ SECTION_CONFIG[s].label = records[i].section
                                  /\ records[i].current = entries[Len(entries)].sections[s]
                                  /\ records[i].previous
                                        = entries[Len(entries) - 1].sections[s]

-----------------------------------------------------------------------------
(* Specification of repeated evaluation: an evaluate_test request, then a  *)
(* second one that submits the same answers mapping over the same bank.    *)

InitRepeat == InitScored

\* the largest number of answers of a repeated submission
MaxRepeated == 2

\* a fallback question and a live question of polity, a live question of economy
RepeatedIds ==
    { MockQid(SectionChars["polity"], 0),
      LiveDoc("polity", 1).question_id,
      LiveDoc("economy", 2)._id }

RECURSIVE RepeatedInputs(_)
\* the answers mappings of k entries over RepeatedIds, as items in insertion order
RepeatedInputs(k) ==
    IF k = 0 THEN {<<>>}
    ELSE {Append(a, [qid |-> q, response |-> r]) :
            a \in RepeatedInputs(k - 1), q \in RepeatedIds, r \in Responses}

\* no user, and user 1 by ObjectId
RepeatedUsers == {NoStr, UserObjectId(1)}

\* the store call made to fail: none, or one of the five calls a request makes
\* before the weekly schedule (find, cursor, find_one, update_one, find_one)
RepeatedFailures == 0..5

\* the orders in which the items of a mapping can be iterated
Orders(a) ==
    {[i \in 1..Len(a) |-> a[p[i]]] :
        p \in {q \in [1..Len(a) -> 1..Len(a)] : \A i, j \in 1..Len(a) : i # j => q[i] # q[j]}}

EvaluateFirst ==
    /\ result = NoResult
    /\ \E user_id \in RepeatedUsers, k \in 0..MaxRepeated, failAt \in RepeatedFailures :
        \E answers \in {a \in RepeatedInputs(k) : DistinctKeys(a)} :
            /\ \E out \in {evaluate_test(questions, users, reports, now, api_key,
                                          user_id, answers, [kind |-> "timeout"], failAt)} :
                   /\ result' = [op |-> "evaluate_test",
                                 args |-> [user_id |-> user_id, answers |-> answers,
                                           failAt |-> failAt]] @@ out
                   /\ users' = out.users
                   /\ reports' = out.reports
            /\ now' = now + 2
            /\ UNCHANGED <<questions, api_key, user_store>>

\* the second request; earlier is the outcome of the first
EvaluateAgain ==
    /\ result # NoResult
    /\ "earlier" \notin DOMAIN result
    /\ \E user_id \in RepeatedUsers, failAt \in RepeatedFailures :
        \E answers \in Orders(result.args.answers) :
            /\ \E out \in {evaluate_test(questions, users, reports, now, api_key,
                                          user_id, answers, [kind |-> "timeout"], failAt)} :
                   /\ result' = [op |-> "evaluate_test",
                                 args |-> [user_id |-> user_id, answers |-> answers,
                                           failAt |-> failAt],
                                 earlier |-> result] @@ out
                   /\ users' = out.users
                   /\ reports' = out.reports
            /\ now' = now + 2
            /\ UNCHANGED <<questions, api_key, user_store>>

NextRepeat == EvaluateFirst \/ EvaluateAgain

SpecRepeat == InitRepeat /\ [][NextRepeat]_vars

\* the scores of a graded request: total, correct and accuracy of every
\* section, and the overall accuracy
Scores(r) ==
    [sections |-> [s \in Sections |->
                      [total |-> r.section_report[s].total,
                       correct |-> r.section_report[s].correct,
                       accuracy |-> r.section_report[s].accuracy]],
     overall_accuracy |-> r.test_summary.overall_accuracy]

\* the request is the second of two
Repeated(r) == r.op = "evaluate_test" /\ "earlier" \in DOMAIN r

\* C16: over a fixed bank two evaluate_test calls with the same answers
\* mapping compute identical per-section total, correct and accuracy and an
\* identical overall accuracy, whatever the user, the history, the outcome
\* of the store writes and the order in which the answers are iterated.
C16_ScoresDeterministic ==
    (/\ Repeated(result)
     /\ Graded(result)
     /\ Graded(result.earlier))
    => Scores(result) = Scores(result.earlier)

\* two polity answers, one right and one wrong, first submitted without a
\* user and then in the other order by user 1 while users.update_one fails
C16_Witness ==
    /\ Repeated(result)
    /\ Graded(result)
    /\ Graded(result.earlier)
    /\ result.args.answers # result.earlier.args.answers
    /\ result.earlier.args.user_id = NoStr
    /\ result.args.user_id = UserObjectId(1)
    /\ FailedCall(result) = "users.update_one"
    /\ result.section_report["polity"].total = 2
    /\ result.section_report["polity"].correct = 1

\* both requests of a repeated evaluation graded their answers, no store
\* call failing, and were made with the user identifier
BothBy(r, user_id) ==
    /\ Repeated(r)
    /\ Graded(r)
    /\ Graded(r.earlier)
    /\ r.args.failAt = 0
    /\ r.earlier.args.failAt = 0
    /\ r.args.user_id = user_id
    /\ r.earlier.args.user_id = user_id

\* C22: in a sequence of evaluations by one user the second evaluation is
\* compared against the report the first one inserted, not against its own;
\* without a user identifier the study plan has no comparison payload.
C22_ComparedWithPrevious ==
    /\ BothBy(result, UserObjectId(1)) =>
          /\ result.raised = ""
          /\ Len(reports) = 2
          /\ "comparison_insights" \in DOMAIN result.value.study_plan
          /\ result.value.study_plan.comparison_insights.previous_report_id
                = reports[1]._id
    /\ BothBy(result, NoStr) =>
          /\ result.raised = ""
          /\ "comparison_insights" \notin DOMAIN result.value.study_plan

-----------------------------------------------------------------------------
(* Specification of plan generation: one generate request.                 *)

\* largest number of entries of a performance mapping
MaxPerf == 2

PerfKeys == {<<"Polity">>, <<" ", "economy", " ">>, <<"History">>}

PerfValues == {35 * Point, 72 * Point, 91 * Point}

\* the entries of a performance mapping: a section with a score, or with a
\* value that is no number
PerfItems ==
    {[key |-> key, value |-> v] : key \in PerfKeys, v \in PerfValues}
        \cup {[key |-> key, text |-> "n/a"] : key \in PerfKeys}

RECURSIVE PerfInputs(_)
PerfInputs(k) ==
    IF k = 0 THEN {<<>>}
    ELSE {Append(p, item) : p \in PerfInputs(k - 1), item \in PerfItems}

DistinctPerfKeys(p) == \A i, j \in 1..Len(p) : i # j => p[i].key # p[j].key

\* (user_id, user_email): nobody, user 1 by id, user 1 by e-mail
Identities ==
    { [user_id |-> NoStr, user_email |-> NoStr],
      [user_id |-> UserObjectId(1), user_email |-> NoStr],
      [user_id |-> NoStr, user_email |-> <<" ", "A", "@", "X">>] }

InitGenerate == Init

Generate ==
    /\ result = NoResult
    /\ \E k \in 0..MaxPerf, who \in Identities, failAt \in 0..1 :
        \E performance \in {p \in PerfInputs(k) : DistinctPerfKeys(p)} :
            \E remote \in IF api_key THEN RemoteOutcomes ELSE {[kind |-> "timeout"]} :
                /\ result' = [op |-> "generate",
                              args |-> [performance |-> performance, who |-> who,
                                        remote |-> remote, failAt |-> failAt]]
                                @@ generate(reports, api_key, performance, who.user_id,
                                            who.user_email, remote, failAt, <<>>)
                /\ UNCHANGED <<questions, users, reports, now, api_key, user_store>>

NextGenerate == Generate

SpecGenerate == InitGenerate /\ [][NextGenerate]_vars

-----------------------------------------------------------------------------
(* Generation claims.                                                      *)

\* the request raised before a response was read, or its body could not be used
RemoteRaises(remote) ==
    remote.kind \in {"timeout", "http_error", "body_not_json", "empty_choices"}

\* the message content is not a JSON object
NonStructured(remote) == remote.kind = "content" /\ remote.loads.py # "dict"

\* json.loads raised on the message content: free text, or no text at all
FreeText(remote) == remote.kind = "content" /\ remote.loads.py = "raises"

\* the message content parsed to a falsy value (null, an empty object)
FalsyContent(remote) ==
    remote.kind = "content" /\ remote.loads.py # "raises" /\ ~remote.loads.truthy

\* what _deterministic_generate gives for the arguments of the request, with
\* its plan_sections
DeterministicPlan ==
    LET perf == normalize_performance(result.args.performance)
        previous == fetch_previous_report(reports, result.args.who.user_email,
                                          result.args.who.user_id, result.args.failAt, <<>>)
        comparison == build_comparison_payload(perf,
                                               extract_scores_from_report(previous.value),
                                               previous.value)
    IN  With(deterministic_generate(perf, comparison),
             LAMBDA plan : plan @@ [plan_sections |-> summarize_study_plan(plan)])

\* the plan is the deterministic one
IsDeterministic == DOMAIN result.value = DOMAIN DeterministicPlan /\ result.value = DeterministicPlan

\* a 7-day plan of 7 day entries and a roadmap of Week 1..Week 4
FullyPopulated ==
    /\ Len(result.value.seven_day_plan) = 7
    /\ \A i \in 1..7 : Len(result.value.seven_day_plan[i].plan) > 0
    /\ [i \in 1..Len(result.value.thirty_day_plan) |-> result.value.thirty_day_plan[i].week]
           = <<"Week 1", "Week 2", "Week 3", "Week 4">>

\* C10 as stated: without a credential no remote call is made, and whenever
\* the remote call fails (timeout, HTTP error, malformed or non-structured
\* response) generate raises nothing and returns the deterministic plan, with
\* 7 day entries and Week 1..Week 4 for a non-empty performance.
C10_AnyRemoteFailureDegrades ==
    result.op = "generate" =>
        /\ result.raised = ""
        /\ ~api_key => ~Issued(result, "requests.post")
        /\ (\/ ~api_key
            \/ RemoteRaises(result.args.remote)
            \/ NonStructured(result.args.remote))
           => /\ IsDeterministic
              /\ Len(normalize_performance(result.args.performance)) > 0 => FullyPopulated

\* C10, amended: without a credential no remote call is made; when the remote
\* call raises (timeout, HTTP error, a body that is not JSON, an empty choices
\* list) or its content parses to a falsy value, generate raises nothing and
\* returns the deterministic plan, with 7 day entries and Week 1..Week 4 for a
\* non-empty performance; content that is not JSON is not a failure: it is
\* returned wrapped as {"text": content}.
C10_RemoteErrorDegrades ==
    result.op = "generate" =>
        /\ result.raised = ""
        /\ ~api_key => ~Issued(result, "requests.post")
        /\ (\/ ~api_key
            \/ RemoteRaises(result.args.remote)
            \/ FalsyContent(result.args.remote))
           => /\ IsDeterministic
              /\ Len(normalize_performance(result.args.performance)) > 0 => FullyPopulated
        /\ (api_key /\ FreeText(result.args.remote))
           => /\ result.value.text = result.args.remote.content
              /\ "seven_day_plan" \notin DOMAIN result.value

\* with a credential, the remote call times out for user 1, who has an earlier
\* report; the plan for MaxPerf sections is the deterministic one
C10_Witness ==
    /\ result.op = "generate"
    /\ api_key
    /\ result.args.remote.kind = "timeout"
    /\ Issued(result, "requests.post")
    /\ Len(normalize_performance(result.args.performance)) = MaxPerf
    /\ "comparison_insights" \in DOMAIN result.value
    /\ IsDeterministic
    /\ FullyPopulated

\* C11: generate never fails, whatever the performance mapping and the
\* comparison: an empty mapping gives the no-data plan (message "No
\* performance data provided."), and a mapping of one or more sections gives
\* a plan.
C11_GenerateNeverFails ==
    result.op = "generate" =>
        /\ result.raised = ""
        /\ Len(result.args.performance) = 0 =>
              /\ "message" \in DOMAIN result.value
              /\ result.value.message = "No performance data provided."
        /\ Len(result.args.performance) > 0 => DOMAIN result.value # {}

-----------------------------------------------------------------------------
(* Specification of comparison: _build_comparison_payload on two score     *)
(* mappings, called both ways round.                                       *)

InitCompare ==
    /\ questions = {}
    /\ InitStore
    /\ result = NoResult

\* the largest number of sections of a compared mapping
MaxCompared == 2

ComparedLabels == {"Polity", "Economy", "History"}

\* accuracies whose differences are 0, 0.01, 1.99, 2.00 and 2.01 points
ComparedValues == {50 * Point, 51 * Point + 99, 52 * Point, 52 * Point + 1}

RECURSIVE ScoreMappings(_)
\* the score mappings of k sections, as items in insertion order
ScoreMappings(k) ==
    IF k = 0 THEN {<<>>}
    ELSE {Append(m, [label |-> l, value |-> v]) :
            m \in ScoreMappings(k - 1), l \in ComparedLabels, v \in ComparedValues}

DistinctLabels(m) == \A i, j \in 1..Len(m) : i # j => m[i].label # m[j].label

Compare ==
    /\ result = NoResult
    /\ \E j, k \in 0..MaxCompared :
        \E current \in {m \in ScoreMappings(j) : DistinctLabels(m)},
           previous \in {m \in ScoreMappings(k) : DistinctLabels(m)} :
            /\ result' = [op |-> "build_comparison_payload",
                          current |-> current, previous |-> previous,
                          forward |-> build_comparison_payload(current, previous, None),
                          swapped |-> build_comparison_payload(previous, current, None)]
            /\ UNCHANGED <<questions, users, reports, now, api_key, user_store>>

NextCompare == Compare

SpecCompare == InitCompare /\ [][NextCompare]_vars

\* the per-section entries of a comparison payload, none when there is no payload
Compared(payload) == IF payload = None THEN <<>> ELSE payload.sections

\* the status the thresholds give to a delta
StatusOf(delta) ==
    IF delta >= 2 * Point THEN "improved"
    ELSE IF delta <= 0 - 2 * Point THEN "downgraded"
    ELSE "stable"

Flipped(status) ==
    IF status = "improved" THEN "downgraded"
    ELSE IF status = "downgraded" THEN "improved"
    ELSE status

\* every entry has delta = current - previous and the status of its delta
FollowsThresholds(entries, current, previous) ==
    \A i \in 1..Len(entries) :
        /\ entries[i].delta = ItemsGet(current, entries[i].label)
                                 - ItemsGet(previous, entries[i].label)
        /\ entries[i].status = StatusOf(entries[i].delta)

\* the entries of the swapped call negate and flip those of the call
Antisymmetric(forward, swapped) ==
    /\ Len(forward) = Len(swapped)
    /\ \A i \in 1..Len(forward) :
          /\ swapped[i].label = forward[i].label
          /\ swapped[i].delta = 0 - forward[i].delta
          /\ swapped[i].status = Flipped(forward[i].status)

\* C13 as stated: the status follows the thresholds on current - previous and,
\* for any two score mappings, the call with previous and current swapped
\* negates every delta, exchanges improved and downgraded and keeps stable.
C13_AntisymmetricAny ==
    result.op = "build_comparison_payload" =>
        /\ FollowsThresholds(Compared(result.forward), result.current, result.previous)
        /\ Antisymmetric(Compared(result.forward), Compared(result.swapped))

\* C13: the status follows the thresholds on current - previous (2.00 is
\* improved, -2.00 is downgraded) and, for any two score mappings neither of
\* which is empty, both calls give a payload and the call with previous and
\* current swapped negates every delta, exchanges improved and downgraded and
\* keeps stable; an empty previous mapping gives no payload.
C13_Antisymmetric ==
    result.op = "build_comparison_payload" =>
        /\ FollowsThresholds(Compared(result.forward), result.current, result.previous)
        /\ (result.forward = None) <=> (Len(result.previous) = 0)
        /\ (Len(result.current) > 0 /\ Len(result.previous) > 0) =>
              /\ Len(Compared(result.forward)) > 0
              /\ Antisymmetric(Compared(result.forward), Compared(result.swapped))

\* Polity went up by exactly 2.00 and Economy by 1.99: improved and stable
\* one way round, downgraded and stable the other
C13_Witness ==
    /\ result.op = "build_comparison_payload"
    /\ Len(result.current) = 2
    /\ Len(result.previous) = 2
    /\ \E i, j \in 1..Len(Compared(result.forward)) :
          /\ result.forward.sections[i].delta = 2 * Point
          /\ result.forward.sections[i].status = "improved"
          /\ result.swapped.sections[i].status = "downgraded"
          /\ result.forward.sections[j].delta = 2 * Point - 1
          /\ result.forward.sections[j].status = "stable"
          /\ result.swapped.sections[j].status = "stable"

\* Retry(total=total_retries) of _requests_session_with_retries
TotalRetries == 3

\* status_forcelist of _requests_session_with_retries: the transient statuses
TransientStatuses == {429, 500, 502, 503, 504}

\* C26: when the remote service answers generate's request with a transient
\* failure (HTTP 5xx or 429) the request is sent again, at most a small fixed
\* number of times, before the deterministic generator takes over; the
\* attempts of one generate call never exceed that budget.
C26_TransientRetried ==
    (/\ result.op = "generate"
     /\ api_key
     /\ result.args.remote.kind = "http_error"
     /\ result.args.remote.status \in TransientStatuses)
    => /\ TimesIssued(result, "requests.post") > 1
       /\ TimesIssued(result, "requests.post") <= 1 + TotalRetries
       /\ result.raised = ""

-----------------------------------------------------------------------------
(* Specification of the deterministic plan: _deterministic_generate on a   *)
(* normalised performance mapping, without comparison.                     *)

InitPlan ==
    /\ questions = {}
    /\ InitStore
    /\ result = NoResult

\* the largest number of sections of a planned performance
MaxPlanned == 3

PlannedLabels == {"Polity", "Economy", "History"}

\* accuracies classified Critical Weak, Weak, Average, Strong and Excellent
PlannedValues == {35 * Point, 50 * Point, 72 * Point, 80 * Point, 91 * Point}

RECURSIVE PlannedInputs(_)
\* the performance mappings of k sections, as items in insertion order
PlannedInputs(k) ==
    IF k = 0 THEN {<<>>}
    ELSE {Append(m, [label |-> l, value |-> v]) :
            m \in PlannedInputs(k - 1), l \in PlannedLabels, v \in PlannedValues}

DeterministicGenerate ==
    /\ result = NoResult
    /\ \E k \in 0..MaxPlanned :
        \E perf \in {m \in PlannedInputs(k) : DistinctLabels(m)} :
            /\ result' = [op |-> "deterministic_generate", perf |-> perf,
                          plan |-> deterministic_generate(perf, None)]
            /\ UNCHANGED <<questions, users, reports, now, api_key, user_store>>

NextPlan == DeterministicGenerate

SpecPlan == InitPlan /\ [][NextPlan]_vars

\* the performance is {Polity: 35, Economy: 72, History: 91}, in some order
IsExample(perf) ==
    /\ Len(perf) = 3
    /\ ItemsGet(perf, "Polity") = 35 * Point
    /\ ItemsGet(perf, "Economy") = 72 * Point
    /\ ItemsGet(perf, "History") = 91 * Point
    /\ \A l \in PlannedLabels : \E i \in 1..Len(perf) : perf[i].label = l

\* the label the plan gives a subject
ClassOf(plan, subject) ==
    plan.classification[CHOOSE i \in 1..Len(plan.classification) :
                            plan.classification[i].subject = subject].label

\* the subject a roadmap week or a day of the micro-plan names
WeekSubject(plan, w) == plan.thirty_day_plan[w].plan[1]

DaySubject(plan, d) == plan.seven_day_plan[d].plan[2]

\* what the example scenario says about everything but Economy
ExampleRest(plan) ==
    /\ ClassOf(plan, "Polity") = "Critical Weak"
    /\ ClassOf(plan, "History") = "Excellent"
    /\ plan.weak_subjects = <<"Polity">>
    /\ WeekSubject(plan, 1) = "Polity"

\* C18 as stated: for {Polity: 35, Economy: 72, History: 91} the plan
\* classifies Polity Critical Weak, Economy Strong, History Excellent, has
\* the weak subjects [Polity] and a Week 1 that focuses on Polity.
C18_ExampleEconomyStrong ==
    (result.op = "deterministic_generate" /\ IsExample(result.perf))
    => /\ ExampleRest(result.plan)
       /\ ClassOf(result.plan, "Economy") = "Strong"

\* C18: for {Polity: 35, Economy: 72, History: 91} the plan classifies
\* Polity Critical Weak, Economy Average (72 lies in the row 60-75), History
\* Excellent, has the weak subjects [Polity], the strong subjects [History]
\* and a Week 1 that focuses on Polity.
C18_Example ==
    (result.op = "deterministic_generate" /\ IsExample(result.perf))
    => /\ ExampleRest(result.plan)
       /\ ClassOf(result.plan, "Economy") = "Average"
       /\ result.plan.strong_subjects = <<"History">>

\* the example with History first and Polity last in the mapping
C18_Witness ==
    /\ result.op = "deterministic_generate"
    /\ IsExample(result.perf)
    /\ result.perf[1].label = "History"
    /\ result.perf[3].label = "Polity"
    /\ WeekSubject(result.plan, 1) = "Polity"

\* C19: for every performance of at least two sections the section of Day 1
\* and Day 2 and the section of Day 3 are the two sections with the lowest
\* accuracies: they differ and no other section scores below either.
C19_FocusTwoWeakest ==
    (result.op = "deterministic_generate" /\ Len(result.perf) >= 2)
    => LET first == DaySubject(result.plan, 1)
           second == DaySubject(result.plan, 3)
       IN  /\ DaySubject(result.plan, 2) = first
           /\ first # second
           /\ \A i \in 1..Len(result.perf) :
                 result.perf[i].label \notin {first, second}
                     => /\ result.perf[i].value >= ItemsGet(result.perf, first)
                        /\ result.perf[i].value >= ItemsGet(result.perf, second)

\* the subjects of the performance whose plan label is one of the labels
Classified(plan, perf, labels) ==
    {perf[i].label : i \in {j \in 1..Len(perf) : ClassOf(plan, perf[j].label) \in labels}}

\* the subjects a list of the plan names
Listed(list) == {list[i] : i \in 1..Len(list)}

\* C25: for every non-empty performance Week 1 names a section of minimum
\* accuracy and, with at least two sections, Week 2 names another section
\* that no section but Week 1's scores below; the weak list holds exactly the
\* sections classified Critical Weak or Weak, the strong list exactly those
\* classified Strong or Excellent, and the two lists are disjoint.
C25_RoadmapAscending ==
    (result.op = "deterministic_generate" /\ Len(result.perf) > 0) =>
        LET plan == result.plan
            perf == result.perf
            first == WeekSubject(plan, 1)
            second == WeekSubject(plan, 2)
        IN  /\ \E i \in 1..Len(perf) : perf[i].label = first
            /\ \A i \in 1..Len(perf) : ItemsGet(perf, first) <= perf[i].value
            /\ Len(perf) >= 2 =>
                  /\ second # first
                  /\ \E i \in 1..Len(perf) : perf[i].label = second
                  /\ \A i \in 1..Len(perf) :
                        perf[i].label # first => ItemsGet(perf, second) <= perf[i].value
            /\ Listed(plan.weak_subjects) = Classified(plan, perf, {"Critical Weak", "Weak"})
            /\ Listed(plan.strong_subjects) = Classified(plan, perf, {"Strong", "Excellent"})
            /\ Len(plan.weak_subjects) = Cardinality(Listed(plan.weak_subjects))
            /\ Len(plan.strong_subjects) = Cardinality(Listed(plan.strong_subjects))
            /\ Listed(plan.weak_subjects) \cap Listed(plan.strong_subjects) = {}

\* History 72, Polity 35, Economy 80: Week 1 is Polity, Week 2 is History,
\* Polity is the weak subject and Economy the strong one
C25_Witness ==
    /\ result.op = "deterministic_generate"
    /\ result.perf = << [label |-> "History", value |-> 72 * Point],
                        [label |-> "Polity", value |-> 35 * Point],
                        [label |-> "Economy", value |-> 80 * Point] >>
    /\ WeekSubject(result.plan, 1) = "Polity"
    /\ WeekSubject(result.plan, 2) = "History"
    /\ result.plan.weak_subjects = <<"Polity">>
    /\ result.plan.strong_subjects = <<"Economy">>

-----------------------------------------------------------------------------
(* Specification of trend feedback: _build_feedback on a history of two    *)
(* snapshots, and _build_comparison_payload on the same pair of scores.    *)

InitFeedback ==
    /\ questions = {}
    /\ InitStore
    /\ result = NoResult

\* a snapshot's sections as the score mapping by label that a report gives
ScoresByLabel(sections) ==
    [i \in 1..Len(SECTION_ORDER) |->
        [label |-> SECTION_CONFIG[SECTION_ORDER[i]].label,
         value |-> sections[SECTION_ORDER[i]]]]

BuildFeedback ==
    /\ result = NoResult
    /\ \E polity, economy, was_polity, was_economy \in ComparedValues :
          LET before == Snapshot(1, was_polity, was_economy)
              latest == Snapshot(2, polity, economy)
              history == [available |-> TRUE, entries |-> <<before, latest>>]
              current_scores ==
                  [l \in Labels |->
                      latest.sections[CHOOSE s \in Sections : SECTION_CONFIG[s].label = l]]
          IN  result' = [op |-> "build_feedback", history |-> history,
                         current_scores |-> current_scores,
                         feedback |-> build_feedback(history, current_scores),
                         comparison |->
                             build_comparison_payload(ScoresByLabel(latest.sections),
                                                      ScoresByLabel(before.sections),
                                                      None)]
    /\ UNCHANGED <<questions, users, reports, now, api_key, user_store>>

NextFeedback == BuildFeedback

SpecFeedback == InitFeedback /\ [][NextFeedback]_vars

\* the bucket trend feedback lists the section in
Bucket(feedback, label) ==
    IF \E i \in 1..Len(feedback.improved_sections) :
          feedback.improved_sections[i].section = label
    THEN "improved"
    ELSE IF \E i \in 1..Len(feedback.regressed_sections) :
               feedback.regressed_sections[i].section = label
    THEN "regressed"
    ELSE "stable"

\* C20: trend feedback buckets a section by the thresholds of the comparison:
\* a delta >= 2 (2.00 included) is improved, a delta <= -2 (-2.00 included)
\* is regressed, any other is stable, so that on equal previous and current
\* values _build_feedback and _build_comparison_payload agree on every section.
C20_FeedbackAgrees ==
    result.op = "build_feedback" =>
        \A i \in 1..Len(result.comparison.sections) :
            LET entry == result.comparison.sections[i]
                bucket == Bucket(result.feedback, entry.label)
            IN  /\ entry.delta >= 2 * Point => bucket = "improved"
                /\ entry.delta <= 0 - 2 * Point => bucket = "regressed"
                /\ bucket = (IF entry.status = "downgraded" THEN "regressed"
                             ELSE entry.status)

-----------------------------------------------------------------------------
(* Specification of test composition: prepare_test over a bank.            *)

InitCompose ==
    /\ questions \in Banks
    /\ InitStore
    /\ result = NoResult

\* the store calls _prepare_test_from_db can issue: two per section
MaxStoreCalls == 2 * Len(SECTION_ORDER)

RECURSIVE PickChoices(_, _, _)
\* the sampled documents of sections 1..i, one sequence of documents per section
PickChoices(bank, n, i) ==
    IF i = 0 THEN {<<>>}
    ELSE {Append(p, q) : p \in PickChoices(bank, n, i - 1),
                         q \in SampleResults(bank, SECTION_CONFIG[SECTION_ORDER[i]].aliases, n)}

StartChoices == [1..Len(SECTION_ORDER) -> StartIndices]

AnyStarts == [i \in 1..Len(SECTION_ORDER) |-> 0]

AnyPicks == [i \in 1..Len(SECTION_ORDER) |-> <<>>]

ComposeResult(n, failAt, out) ==
    [op |-> "prepare_test", args |-> [questions_per_section |-> n, failAt |-> failAt]]
        @@ out

\* the store call that raises PyMongoError in the model: none, the first
\* count, the first sample, a count in mid-loop, the last sample
FailPoints == {0, 1, 2, Len(SECTION_ORDER), MaxStoreCalls}

\* prepare_test(questions_per_section = n), the failAt-th store call failing.
\* Only the path taken draws its random values.  prepare_test writes nothing,
\* so a behaviour holds one call.
PrepareTest ==
    \E n \in -1..MaxN, failAt \in FailPoints :
        /\ result = NoResult
        /\ IF n > 0 /\ prepare_test_from_db(questions, n, AnyPicks, failAt).raised = ""
           THEN \E picks \in PickChoices(questions, n, Len(SECTION_ORDER)) :
                    result' = ComposeResult(n, failAt,
                                prepare_test(questions, n, picks, AnyStarts, failAt))
           ELSE \E starts \in StartChoices :
                    result' = ComposeResult(n, failAt,
                                prepare_test(questions, n, AnyPicks, starts, failAt))
        /\ UNCHANGED <<questions, users, reports, now, api_key, user_store>>

NextCompose == PrepareTest

SpecCompose == InitCompose /\ [][NextCompose]_vars

-----------------------------------------------------------------------------
(* Composition claims.                                                     *)

ComposedTest == result.op = "prepare_test" /\ result.raised = ""

RequestedCount == result.args.questions_per_section

AllQuestions(P(_, _)) ==
    \A i \in 1..Len(result.value.sections) :
        \A j \in 1..Len(result.value.sections[i].questions) :
            P(result.value.sections[i].questions[j], result.value.sections[i].key)

AnyQuestion(P(_, _)) ==
    \E i \in 1..Len(result.value.sections) :
        \E j \in 1..Len(result.value.sections[i].questions) :
            P(result.value.sections[i].questions[j], result.value.sections[i].key)

FromMock(q, section) == IsMockForm(q.question_id, section)

FromLive(q, section) == \E d \in questions : q = DbQuestionPayload(d, section)

\* C1: for every n > 0, on the live and on the fallback path, prepare_test
\* returns a Test with exactly the 7 canonical sections in SECTION_ORDER, each
\* with exactly n questions (7*n in total), none carrying a correct answer.
C1_TestShape ==
    (result.op = "prepare_test" /\ RequestedCount > 0) =>
        /\ result.raised = ""
        /\ Len(result.value.sections) = 7
        /\ \A i \in 1..Len(result.value.sections) :
              /\ result.value.sections[i].key = SECTION_ORDER[i]
              /\ Len(result.value.sections[i].questions) = RequestedCount
        /\ result.value.total_questions = 7 * RequestedCount
        /\ LET NoAnswer(q, section) == DOMAIN q \cap {"correct_answer", "answer"} = {}
           IN  AllQuestions(NoAnswer)

\* a Test of MaxN questions per section sampled from the live bank
C1_Witness ==
    /\ ComposedTest
    /\ RequestedCount = MaxN
    /\ AllQuestions(FromLive)

\* the live path is abandoned: a store call raised or a section is short
LiveBankFails ==
    \/ result.args.failAt # 0
    \/ \E s \in Sections :
          count_documents(questions, SECTION_CONFIG[s].aliases) < RequestedCount

\* C4: prepare_test never raises because of the live bank and never mixes
\* sources: a store error or a short section gives a Test made of fallback
\* questions only (ids mock-<section>-<index>), otherwise of live questions only.
C4_NoMixNoFail ==
    (result.op = "prepare_test" /\ RequestedCount > 0) =>
        /\ result.raised = ""
        /\ LiveBankFails => AllQuestions(FromMock)
        /\ ~LiveBankFails => AllQuestions(FromLive)
        /\ ~(AnyQuestion(FromMock) /\ AnyQuestion(FromLive))

\* the last section is short of MaxN questions after six sections were sampled,
\* no store call fails, and the Test is made of fallback questions
C4_Witness ==
    /\ ComposedTest
    /\ RequestedCount = MaxN
    /\ result.args.failAt = 0
    /\ count_documents(questions, SECTION_CONFIG["currentAffairs"].aliases) < MaxN
    /\ Len(result.ops) = MaxStoreCalls - 1
    /\ AllQuestions(FromMock)

\* C17: prepare_test called with questions_per_section <= 0 raises the
\* invalid-input error before any sampling: no count or sample query reaches
\* the store and no test, live or fallback, is composed.
C17_RejectsBeforeSampling ==
    (result.op = "prepare_test" /\ result.args.questions_per_section <= 0)
    => /\ result.raised = "ValueError"
       /\ result.ops = <<>>
       /\ "value" \notin DOMAIN result

\* a count of zero is rejected while the live bank is full
C17_Witness ==
    /\ result.op = "prepare_test"
    /\ result.args.questions_per_section = 0
    /\ questions = FullBank
    /\ result.raised = "ValueError"
    /\ result.ops = <<>>

\* the index a fallback question was generated at, read from its identifier
MockIndex(q) == IntValue(Split2(q.question_id, "-")[3])

\* the prompt is that of blueprint i mod B, with the suffix (Variant k),
\* k = i div B, exactly when k > 0
CyclicVariant(q, section) ==
    LET blueprints == MOCK_SECTION_BLUEPRINTS[section]
        blueprint == blueprints[(MockIndex(q) % Len(blueprints)) + 1]
        k == MockIndex(q) \div Len(blueprints)
    IN  /\ q.topic = blueprint.topic
        /\ q.question = IF k > 0
                        THEN <<blueprint.question, " (Variant ">> \o IntStr(k) \o <<")">>
                        ELSE <<blueprint.question>>

\* C23: the fallback question at index i of a section with B blueprints uses
\* blueprint i mod B and its prompt carries the suffix (Variant k), k = i div B,
\* exactly when k > 0; two questions of one section of a Test never have the
\* same prompt.
C23_VariantMarker ==
    (ComposedTest /\ RequestedCount > 0 /\ AllQuestions(FromMock)) =>
        /\ AllQuestions(CyclicVariant)
        /\ \A i \in 1..Len(result.value.sections) :
              \A j, k \in 1..Len(result.value.sections[i].questions) :
                  j # k => result.value.sections[i].questions[j].question
                              # result.value.sections[i].questions[k].question

-----------------------------------------------------------------------------
(* Specification of the fallback identifiers: compose, then reconstruct.   *)

InitRoundTrip ==
    /\ questions = {}
    /\ InitStore
    /\ result = NoResult

\* what the composer issues for (section, index) and what grading rebuilds
\* from the identifier alone
RoundTrip ==
    \E section \in Sections, start \in 0..MaxStartIndex, offset \in 0..(MaxN - 1) :
        /\ result.op = "none"
        /\ LET composed == mock_question_document(SectionChars[section], start + offset, FALSE).value
           IN  result' = [op |-> "round_trip", section |-> section, index |-> start + offset,
                          composed |-> composed,
                          rebuilt |-> mock_question_from_id(composed.question_id)]
        /\ UNCHANGED <<questions, users, reports, now, api_key, user_store>>

NextRoundTrip == RoundTrip

SpecRoundTrip == InitRoundTrip /\ [][NextRoundTrip]_vars

\* C5: for every section and every index the composer can issue, the question
\* rebuilt from the identifier has the section, prompt (variant suffix
\* included), topic, difficulty and options of the composed one, plus the
\* blueprint's correct answer.
C5_RoundTrip ==
    result.op = "round_trip" =>
        /\ result.rebuilt # None
        /\ result.rebuilt.question_id = result.composed.question_id
        /\ result.rebuilt.section = result.composed.section
        /\ result.rebuilt.question = result.composed.question
        /\ result.rebuilt.topic = result.composed.topic
        /\ result.rebuilt.difficulty = result.composed.difficulty
        /\ result.rebuilt.options = result.composed.options
        /\ LET blueprints == MOCK_SECTION_BLUEPRINTS[result.section]
           IN  result.rebuilt.correct_answer
                   = blueprints[(result.index % Len(blueprints)) + 1].answer

\* the largest index: start offset 999 plus the last offset, a reused blueprint
C5_Witness ==
    /\ result.op = "round_trip"
    /\ result.index = MaxStartIndex + MaxN - 1
    /\ Len(result.composed.question) > 1
    /\ result.rebuilt # None

-----------------------------------------------------------------------------
(* Specification of section resolution: _normalize_section on a subject.   *)

InitSections == InitCompare

\* the whitespace around a subject: none, one or two blanks on either side
Paddings ==
    { [left |-> l, right |-> r] : l, r \in {<<>>, <<" ">>, <<" ", " ">>} }

\* every alias of every section, which includes every display label
AliasSpellings == UNION {SECTION_CONFIG[s].aliases : s \in Sections}

\* spellings that are the alias of no section
UnknownSpellings == {"Sociology", "POLITY", "ECONOMY", "Science and Tech", "current affairs"}

\* the subjects resolved in the model: None, the empty and the blank string,
\* and every spelling with every padding
SubjectInputs ==
    {NoStr, <<>>}
        \cup {p.left \o <<a>> \o p.right : p \in Paddings,
                                            a \in AliasSpellings \cup UnknownSpellings}
        \cup {p.left \o p.right : p \in Paddings}

NormalizeSection ==
    /\ result = NoResult
    /\ \E subject \in SubjectInputs :
          result' = [op |-> "normalize_section", subject |-> subject,
                     section |-> normalize_section(subject)]
    /\ UNCHANGED <<questions, users, reports, now, api_key, user_store>>

NextSections == NormalizeSection

SpecSections == InitSections /\ [][NextSections]_vars

\* the subject without the blanks around it; None counts as empty
Bare(subject) ==
    IF subject = NoStr THEN <<>>
    ELSE SelectSeq(subject, LAMBDA c : c # " ")

\* the sections one of whose aliases is the bare subject
Owners(subject) ==
    {s \in Sections : \E a \in SECTION_CONFIG[s].aliases : Bare(subject) = <<a>>}

\* C27: the alias sets of the 7 sections are pairwise disjoint and hold the
\* display label; every alias spelling, padded with whitespace or not,
\* resolves to its own section, and a subject matching no alias (None and
\* the empty string included) resolves to the default section polity.
C27_ResolutionTotal ==
    /\ Cardinality(Sections) = 7
    /\ \A s, t \in Sections :
          s # t => SECTION_CONFIG[s].aliases \cap SECTION_CONFIG[t].aliases = {}
    /\ \A s \in Sections : SECTION_CONFIG[s].label \in SECTION_CONFIG[s].aliases
    /\ result.op = "normalize_section" =>
          /\ result.section \in Sections
          /\ Cardinality(Owners(result.subject)) <= 1
          /\ Owners(result.subject) # {} => Owners(result.subject) = {result.section}
          /\ Owners(result.subject) = {} => result.section = "polity"

\* the display label of Science & Tech between blanks resolves to scienceTech
C27_Witness ==
    /\ result.op = "normalize_section"
    /\ result.subject = <<" ", "Science & Tech", " ", " ">>
    /\ result.section = "scienceTech"

-----------------------------------------------------------------------------
(* Specification of classification: classify_score on two-decimal scores.  *)

InitClassify ==
    /\ questions = {}
    /\ InitStore
    /\ result = NoResult

MaxScore == 100 * Point

Classify ==
    \E score \in 0..MaxScore :
        /\ result.op = "none"
        /\ result' = [op |-> "classify_score", score |-> score, label |-> classify_score(score)]
        /\ UNCHANGED <<questions, users, reports, now, api_key, user_store>>

NextClassify == Classify

SpecClassify == InitClassify /\ [][NextClassify]_vars

\* the half-open table of the specification
HalfOpenLabel(score) ==
    IF score < 40 * Point THEN "Critical Weak"
    ELSE IF score < 60 * Point THEN "Weak"
    ELSE IF score < 75 * Point THEN "Average"
    ELSE IF score < 90 * Point THEN "Strong"
    ELSE "Excellent"

\* C6: every accuracy in [0,100] is classified by the half-open table
\* [0,40) Critical Weak, [40,60) Weak, [60,75) Average, [75,90) Strong,
\* [90,100] Excellent; no value is left unclassified.
C6_HalfOpenTable ==
    result.op = "classify_score" => result.label = HalfOpenLabel(result.score)

-----------------------------------------------------------------------------
(* Specification of the user store: a sequence of create_user,             *)
(* create_session, resolve_token and drop_session calls on the             *)
(* InMemoryUserStore of app/services/user_store.py.  result holds the log  *)
(* of the calls: what each was given and what it returned or raised.       *)

\* the largest number of calls of a sequence
MaxOps == 4

\* a strict email check: the address is compared as it was given
create_user_email_as_given(email) == email

\* email.lower().strip() (line 14)
create_user_email(email) == Strip(Lower(email))

\* the values that the calls of a log returned as fresh random strings:
\* the id of each created user and the token of each created session
IssuedUuids(calls) ==
    {calls[j].returned.id :
        j \in {k \in 1..Len(calls) : calls[k].op = "create_user" /\ ~calls[k].raised}}
    \cup {calls[j].returned :
            j \in {k \in 1..Len(calls) : calls[k].op = "create_session"}}

\* str(uuid.uuid4()): a string that no earlier call returned
uuid4(calls) == <<"u", "-", Digit[Cardinality(IssuedUuids(calls)) + 1]>>

\* bcrypt.gensalt(): a salt that no earlier call drew
gensalt(calls) ==
    Cardinality({j \in 1..Len(calls) : calls[j].op = "create_user" /\ ~calls[j].raised})

\* bcrypt.hashpw(password, salt)
hashpw(password, salt) == [salt |-> salt, password |-> password]

\* dict.get(key): the value, or None when the key is missing
DictGet(dict, key) == IF key \in DOMAIN dict THEN dict[key] ELSE None

\* the addresses given to create_user: two spellings of one address and another
EmailInputs ==
    { <<"a", "@", "x">>, <<" ", "A", "@", "x", " ">>, <<"b", "@", "x">> }

\* a string that is no issued value, and the empty string
StrangerStrings == { <<"n", "o">>, <<>> }

InitUserStore ==
    /\ questions = {}
    /\ InitStore
    /\ result = [op |-> "user_store", calls |-> <<>>]

\* create_user (lines 13-33): the normalised address, the duplicate check
\* that raises, then the new user stored under a fresh id
CreateUser ==
    /\ Len(result.calls) < MaxOps
    /\ \E given \in EmailInputs :
        LET email == create_user_email(given)
            args == [name |-> <<" ", "N", " ">>, email |-> given,
                     password |-> "pw", phone_number |-> None]
        IN  IF \E k \in DOMAIN user_store.users : user_store.users[k].email = email
            THEN /\ result' = [result EXCEPT !.calls =
                                  Append(@, [op |-> "create_user", args |-> args,
                                             raised |-> TRUE,
                                             returned |-> "User already exists"])]
                 /\ UNCHANGED user_store
            ELSE LET user_id == uuid4(result.calls)
                     user == [id |-> user_id,
                              name |-> Strip(args.name),
                              email |-> email,
                              password_hash |-> hashpw(args.password, gensalt(result.calls)),
                              phone_number |-> args.phone_number]
                 IN  /\ user_store' = [user_store EXCEPT !.users = (user_id :> user) @@ @]
                     /\ result' = [result EXCEPT !.calls =
                                      Append(@, [op |-> "create_user", args |-> args,
                                                 raised |-> FALSE, returned |-> user])]
    /\ UNCHANGED <<questions, users, reports, now, api_key>>

\* create_session (lines 48-51): a fresh token recorded for the given id
CreateSession ==
    /\ Len(result.calls) < MaxOps
    /\ \E user_id \in IssuedUuids(result.calls) \cup StrangerStrings :
        LET token == uuid4(result.calls)
        IN  /\ user_store' = [user_store EXCEPT !.sessions = (token :> user_id) @@ @]
            /\ result' = [result EXCEPT !.calls =
                             Append(@, [op |-> "create_session",
                                        args |-> [user_id |-> user_id],
                                        raised |-> FALSE, returned |-> token])]
    /\ UNCHANGED <<questions, users, reports, now, api_key>>

\* resolve_token (lines 53-57)
resolve_token(store, token) ==
    LET user_id == DictGet(store.sessions, token)
    IN  IF user_id = None \/ user_id = <<>> THEN None
        ELSE DictGet(store.users, user_id)

ResolveToken ==
    /\ Len(result.calls) < MaxOps
    /\ \E token \in IssuedUuids(result.calls) \cup StrangerStrings :
        result' = [result EXCEPT !.calls =
                      Append(@, [op |-> "resolve_token", args |-> [token |-> token],
                                 raised |-> FALSE,
                                 returned |-> resolve_token(user_store, token)])]
    /\ UNCHANGED <<questions, users, reports, now, api_key, user_store>>

\* drop_session (lines 59-60): sessions.pop(token, None)
DropSession ==
    /\ Len(result.calls) < MaxOps
    /\ \E token \in IssuedUuids(result.calls) \cup StrangerStrings :
        /\ user_store' = [user_store EXCEPT !.sessions =
                             [t \in DOMAIN @ \ {token} |-> @[t]]]
        /\ result' = [result EXCEPT !.calls =
                         Append(@, [op |-> "drop_session", args |-> [token |-> token],
                                    raised |-> FALSE, returned |-> None])]
    /\ UNCHANGED <<questions, users, reports, now, api_key>>

NextUserStore ==
    \/ CreateUser
    \/ CreateSession
    \/ ResolveToken
    \/ DropSession

SpecUserStore == InitUserStore /\ [][NextUserStore]_vars

\* the users that the calls before call k created
CreatedBefore(calls, k) ==
    {calls[j].returned :
        j \in {i \in 1..(k - 1) : calls[i].op = "create_user" /\ ~calls[i].raised}}

\* before call k a create_session for user_id returned the token, and no
\* drop_session of the token came between the two
LiveSessionFor(calls, k, token, user_id) ==
    \E j \in 1..(k - 1) :
        /\ calls[j].op = "create_session"
        /\ calls[j].returned = token
        /\ calls[j].args.user_id = user_id
        /\ \A d \in (j + 1)..(k - 1) :
              ~(calls[d].op = "drop_session" /\ calls[d].args.token = token)

\* no two stored users have the same lower-cased, trimmed email
EmailsDistinct ==
    \A i, j \in DOMAIN user_store.users :
        i # j => Lower(Strip(user_store.users[i].email))
                    # Lower(Strip(user_store.users[j].email))

\* every resolve_token of the log returned user u exactly when a session for
\* u's id was live under the token, and None when no such user exists
ResolvedExactly ==
    \A k \in 1..Len(result.calls) :
        result.calls[k].op = "resolve_token" =>
            LET calls == result.calls
                token == calls[k].args.token
                known == CreatedBefore(calls, k)
            IN  /\ calls[k].returned \in known \cup {None}
                /\ \A u \in known :
                      (calls[k].returned = u) <=> LiveSessionFor(calls, k, token, u.id)

\* what the latest call of the log did to the store
LatestCallEffect ==
    LET call == result'.calls[Len(result'.calls)]
    IN  /\ ( /\ call.op = "create_user"
             /\ \E k \in DOMAIN user_store.users :
                   Lower(Strip(user_store.users[k].email)) = Lower(Strip(call.args.email)) )
            => (call.raised /\ user_store' = user_store)
        /\ call.op = "drop_session" =>
            /\ user_store'.users = user_store.users
            /\ DOMAIN user_store'.sessions = DOMAIN user_store.sessions \ {call.args.token}
            /\ \A t \in DOMAIN user_store'.sessions :
                  user_store'.sessions[t] = user_store.sessions[t]

\* C30: after any sequence of create_user, create_session, resolve_token and
\* drop_session calls no two stored users have the same lower-cased, trimmed
\* email, and a duplicate create_user raises and leaves the store unchanged;
\* resolve_token(t) returns user u exactly when t was returned by a
\* create_session for u's id and has not been dropped since; drop_session
\* removes only that token and changes nothing on an unknown token.
C30_UserStore ==
    /\ [](EmailsDistinct /\ ResolvedExactly)
    /\ [][LatestCallEffect]_vars

\* a user created, a second spelling of the address refused, and a session
\* of the user resolved to the user
C30_Witness ==
    LET calls == result.calls
    IN  /\ \E k \in 1..Len(calls) : calls[k].op = "create_user" /\ calls[k].raised
        /\ \E k \in 1..Len(calls) :
              /\ calls[k].op = "resolve_token"
              /\ calls[k].returned # None
        /\ Cardinality(DOMAIN user_store.users) = 1
        /\ Cardinality(DOMAIN user_store.sessions) = 1

====
